---- MODULE Spec2Model ----
(***************************************************************************)
(* Behaviour trees of bhv.rs.                                              *)
(*                                                                         *)
(* A node is a record that carries its own fields, as the Rust structs do: *)
(* a composite holds its children and its cursor, a Repeat its child and   *)
(* its counters.  update/reset/react are recursive operators that return   *)
(* the status together with the node, the context and the call log after   *)
(* the call.  The context is an integer (the i32 of the tests and of       *)
(* main.rs).  The log records, in call order, every update (with the       *)
(* status it returned), every reset (with the status it was given) and     *)
(* every react, each under the path of the node from the root (Rust child  *)
(* indices, 0-based; the child of a decorator is 0); update and react      *)
(* entries also carry the context the call left.                           *)
(*                                                                         *)
(* impl = "cur" is src/src/*.rs, impl = "old" is src/src/old_impl/*.rs;    *)
(* the reactive variant is src/src/events_impl/*.rs.                       *)
(***************************************************************************)
EXTENDS Integers, Sequences, FiniteSets, TLC

VARIABLES
    impl,     \* which poll implementation the tree is built from
    mode,     \* "execute": driven by Bhv::execute; "manual": the caller calls update/reset; "react": reactive execute
    tree,     \* the root node, with the private state of every node
    tree0,    \* the tree as built
    ctx,      \* the shared context
    ctx0,     \* the context the first run started from
    last,     \* status returned by the last update/react call, "None" before any call and after a reset
    lastop,   \* the last step of the caller: "none", "update", "reset", "react", "skip" (event refused), "end" (source exhausted)
    calls,    \* number of calls made on the root
    log,      \* the calls made inside the last root call
    hist,     \* the calls made since construction or since the last root reset
    runctx,   \* the context at construction or at the last root reset
    source,   \* reactive: the events of the source, in order
    queue,    \* reactive: the events of the source not yet consumed
    done,     \* execute has returned
    result,   \* what execute returned: "true", "false", "unit" (reactive), "None" while running
    twin      \* mode "pair": a second tree, given the same calls on a context of its own

vars == <<impl, mode, tree, tree0, ctx, ctx0, last, lastop, calls, log, hist, runctx, source, queue, done, result, twin>>

----------------------------------------------------------------------------
(* Bounds *)

MaxLen    == 2    \* children of a generated composite
MaxCount  == 2    \* count of a generated Repeat
MaxCalls  == 3    \* calls a caller makes by hand on a tree
MaxTicks  == 11   \* iterations of Bhv::execute that are followed
MaxV0     == 2    \* initial contexts 0..MaxV0 of the generated trees
MaxEvents == 3    \* events of a generated event source

MaxRunning == 2   \* Running answers of a leaf before it completes

MaxPairCalls == 4  \* calls a caller makes on each of two trees compared call by call

\* old_impl/adapt.rs, doc of async_action: State::new(10)
FibSteps  == 10

----------------------------------------------------------------------------
(* core.rs: Status *)

Status == {"Running", "Success", "Failure"}

Terminal == {"Success", "Failure"}

----------------------------------------------------------------------------
(* Node constructors *)

\* action(|v| *v += arg) ("add"), action(|v| *v = arg) ("set"); add 0 is a print
action(op, arg) == [kind |-> "Action", op |-> op, arg |-> arg]

\* cond(|v| (lo..hi).contains(v))
cond(lo, hi) == [kind |-> "Cond", lo |-> lo, hi |-> hi]

\* async_action of a closure that returns script[1], script[2], ... on
\* successive calls and starts over after the last one
async_action(script) == [kind |-> "AsyncAction", script |-> script, pos |-> 1]

\* old_impl/adapt.rs, doc of async_action: State::new(steps)
State(steps) == [a |-> 0, b |-> 1, n |-> steps]

\* async_action of the closure of the doc example, which keeps its state in
\* the context: one Fibonacci step per call while s.n > 0
fib == [kind |-> "AsyncFn", fn |-> "fib"]

inv(b) == [kind |-> "Inv", bhv |-> b]

pass(b) == [kind |-> "Pass", bhv |-> b]

fail(b) == [kind |-> "Fail", bhv |-> b]

\* a Repeat whose counter starts at 0
repeat_FromZero(b, count) == [kind |-> "Repeat", bhv |-> b, count |-> count, current |-> 0]

\* decor.rs: repeat, BhvExt::repeat
repeat(b, count) == [kind |-> "Repeat", bhv |-> b, count |-> count, current |-> 1]

repeat_until(b, lo, hi) ==
    [kind |-> "RepeatUntil", bhv |-> b, cond |-> [lo |-> lo, hi |-> hi], checked_cond |-> FALSE]

\* old_impl/bhv_ext.rs and events_impl/bhv_ext.rs
repeat_until_pass(b) == [kind |-> "RepeatUntilPass", bhv |-> b]

repeat_until_fail(b) == [kind |-> "RepeatUntilFail", bhv |-> b]

seq(nodes) == [kind |-> "Seq", nodes |-> nodes, current |-> 0]

sel(nodes) == [kind |-> "Sel", nodes |-> nodes, current |-> 0]

\* when_all!{...} and when_any!{...}: WhenAll::new, WhenAny::new
when_all(nodes) == [kind |-> "WhenAll", nodes |-> nodes]

when_any(nodes) == [kind |-> "WhenAny", nodes |-> nodes]

\* a Selector given the policy of a Sequence
PolicyStatus_AllSeq(n) == "Success"

\* StatusPolicy::STATUS: the status on which a composite goes on to the next child
PolicyStatus(n) == IF n.kind = "Seq" THEN "Success" ELSE "Failure"

\* the closure of a Cond or of a RepeatUntil
Holds(c, v) == c.lo <= v /\ v < c.hi

\* the closure of an Action
Effect(n, v) == IF n.op = "add" THEN v + n.arg ELSE n.arg

----------------------------------------------------------------------------
(* Poll model: update and reset *)

\* the state of a second tree: the tree, its context, the status of its
\* last call, the calls made inside its last root call and since its last reset
Twin(n, c) == [tree |-> n, tree0 |-> n, ctx |-> c, last |-> "None", log |-> <<>>, hist |-> <<>>]

\* no second tree
NoTwin == [tree |-> <<>>, tree0 |-> <<>>, ctx |-> 0, last |-> "None", log |-> <<>>, hist |-> <<>>]

Ret(s, n, c, l) == [s |-> s, node |-> n, ctx |-> c, log |-> l]

UpdEv(path, s, c) == [op |-> "update", p |-> path, s |-> s, c |-> c]

RstEv(path, s) == [op |-> "reset", p |-> path, s |-> s]

RECURSIVE Update(_, _, _, _, _)
RECURSIVE Reset(_, _, _, _, _)
RECURSIVE ListUpdate(_, _, _, _, _)
RECURSIVE OldListUpdate(_, _, _, _, _)
RECURSIVE ResetNodes(_, _, _, _, _, _)
RECURSIVE WhenAllUpdate(_, _, _, _, _, _, _)
RECURSIVE WhenAnyUpdate(_, _, _, _, _, _, _)

ActionUpdate(n, c, lg) == Ret("Success", n, Effect(n, c), lg)

CondUpdate(n, c, lg) == Ret(IF Holds(n, c) THEN "Success" ELSE "Failure", n, c, lg)

AsyncActionUpdate(n, c, lg) ==
    Ret(n.script[n.pos], [n EXCEPT !.pos = IF @ >= Len(n.script) THEN 1 ELSE @ + 1], c, lg)

\* AsyncAction::update over the closure of the doc example
AsyncFnUpdate(n, c, lg) ==
    IF c.n = 0
    THEN Ret("Success", n, c, lg)
    ELSE Ret("Running", n, [a |-> c.b, b |-> c.b + c.a, n |-> c.n - 1], lg)

\* Inv that turns Running into Failure
InvUpdate_RunningFails(im, n, c, path, lg) ==
    LET r == Update(im, n.bhv, c, Append(path, 0), lg)
        s == IF r.s = "Failure" THEN "Success" ELSE "Failure"
    IN  Ret(s, [n EXCEPT !.bhv = r.node], r.ctx, r.log)

\* Inv that passes the status of its child on as it is
InvUpdate_Identity(im, n, c, path, lg) ==
    LET r == Update(im, n.bhv, c, Append(path, 0), lg)
    IN  Ret(r.s, [n EXCEPT !.bhv = r.node], r.ctx, r.log)

InvUpdate(im, n, c, path, lg) ==
    LET r == Update(im, n.bhv, c, Append(path, 0), lg)
        s == CASE r.s = "Running" -> "Running"
               [] r.s = "Failure" -> "Success"
               [] r.s = "Success" -> "Failure"
    IN  Ret(s, [n EXCEPT !.bhv = r.node], r.ctx, r.log)

\* Pass that succeeds while its child is still running
PassUpdate_AlwaysSuccess(im, n, c, path, lg) ==
    LET r == Update(im, n.bhv, c, Append(path, 0), lg)
    IN  Ret("Success", [n EXCEPT !.bhv = r.node], r.ctx, r.log)

PassUpdate(im, n, c, path, lg) ==
    LET r == Update(im, n.bhv, c, Append(path, 0), lg)
        s == IF r.s = "Failure" THEN "Success" ELSE r.s
    IN  Ret(s, [n EXCEPT !.bhv = r.node], r.ctx, r.log)

FailUpdate(im, n, c, path, lg) ==
    LET r == Update(im, n.bhv, c, Append(path, 0), lg)
        s == IF r.s = "Success" THEN "Failure" ELSE r.s
    IN  Ret(s, [n EXCEPT !.bhv = r.node], r.ctx, r.log)

\* Repeat that compares the counter with > instead of >=
RepeatUpdate_Strict(im, n, c, path, lg) ==
    LET r == Update(im, n.bhv, c, Append(path, 0), lg)
    IN  IF n.current > n.count
        THEN Ret(r.s, [n EXCEPT !.bhv = r.node], r.ctx, r.log)
        ELSE IF r.s = "Running"
             THEN Ret("Running", [n EXCEPT !.bhv = r.node], r.ctx, r.log)
             ELSE LET q == Reset(im, r.node, r.s, Append(path, 0), r.log)
                  IN  Ret("Running", [n EXCEPT !.bhv = q.node, !.current = @ + 1], r.ctx, q.log)

\* Repeat that answers Running whatever its counter
RepeatUpdate_AlwaysRunning(im, n, c, path, lg) ==
    LET r == Update(im, n.bhv, c, Append(path, 0), lg)
    IN  IF r.s = "Running"
        THEN Ret("Running", [n EXCEPT !.bhv = r.node], r.ctx, r.log)
        ELSE LET q == Reset(im, r.node, r.s, Append(path, 0), r.log)
             IN  Ret("Running", [n EXCEPT !.bhv = q.node, !.current = @ + 1], r.ctx, q.log)

RepeatUpdate(im, n, c, path, lg) ==
    LET r == Update(im, n.bhv, c, Append(path, 0), lg)
    IN  IF n.current >= n.count
        THEN Ret(r.s, [n EXCEPT !.bhv = r.node], r.ctx, r.log)
        ELSE IF r.s = "Running"
             THEN Ret("Running", [n EXCEPT !.bhv = r.node], r.ctx, r.log)
             ELSE LET q == Reset(im, r.node, r.s, Append(path, 0), r.log)
                  IN  Ret("Running", [n EXCEPT !.bhv = q.node, !.current = @ + 1], r.ctx, q.log)

\* an evaluation of the predicate of the RepeatUntil under path, with its answer
CondEv(path, c, b) == [op |-> "cond", p |-> path, s |-> IF b THEN "true" ELSE "false", c |-> c]

\* RepeatUntil that does not clear checked_cond when the child completes
RepeatUntilUpdate_NoClear(im, n, c, path, lg) ==
    LET r  == Update(im, n.bhv, c, Append(path, 0), lg)
        q  == IF r.s # "Running"
              THEN Reset(im, r.node, r.s, Append(path, 0), r.log)
              ELSE [node |-> r.node, log |-> r.log]
        ck == n.checked_cond
        n1 == [n EXCEPT !.bhv = q.node, !.checked_cond = ck]
        l1 == Append(q.log, CondEv(path, r.ctx, Holds(n.cond, r.ctx)))
    IN  IF ~ck
        THEN IF Holds(n.cond, r.ctx)
             THEN Ret("Success", n1, r.ctx, l1)
             ELSE Ret("Running", [n1 EXCEPT !.checked_cond = TRUE], r.ctx, l1)
        ELSE Ret("Running", n1, r.ctx, q.log)

\* RepeatUntil that evaluates its predicate on every call
RepeatUntilUpdate_AlwaysCheck(im, n, c, path, lg) ==
    LET r  == Update(im, n.bhv, c, Append(path, 0), lg)
        q  == IF r.s # "Running"
              THEN Reset(im, r.node, r.s, Append(path, 0), r.log)
              ELSE [node |-> r.node, log |-> r.log]
        n1 == [n EXCEPT !.bhv = q.node]
        l1 == Append(q.log, CondEv(path, r.ctx, Holds(n.cond, r.ctx)))
    IN  IF Holds(n.cond, r.ctx)
        THEN Ret("Success", [n1 EXCEPT !.checked_cond = FALSE], r.ctx, l1)
        ELSE Ret("Running", [n1 EXCEPT !.checked_cond = TRUE], r.ctx, l1)

\* RepeatUntil that evaluates its predicate before it updates its child,
\* and returns Success without updating it when the predicate holds
RepeatUntilUpdate_CheckFirst(im, n, c, path, lg) ==
    IF ~n.checked_cond /\ Holds(n.cond, c)
    THEN Ret("Success", n, c, Append(lg, CondEv(path, c, TRUE)))
    ELSE LET r  == Update(im, n.bhv, c, Append(path, 0), lg)
             q  == IF r.s # "Running"
                   THEN Reset(im, r.node, r.s, Append(path, 0), r.log)
                   ELSE [node |-> r.node, log |-> r.log]
         IN  Ret("Running", [n EXCEPT !.bhv = q.node, !.checked_cond = (r.s = "Running")],
                 r.ctx, q.log)

\* RepeatUntil that resets its child before it returns Success
RepeatUntilUpdate_ResetOnSuccess(im, n, c, path, lg) ==
    LET r  == Update(im, n.bhv, c, Append(path, 0), lg)
        ck == IF r.s # "Running" THEN FALSE ELSE n.checked_cond
        l1 == Append(r.log, CondEv(path, r.ctx, Holds(n.cond, r.ctx)))
        q  == IF r.s # "Running" \/ (~ck /\ Holds(n.cond, r.ctx))
              THEN Reset(im, r.node, "Success", Append(path, 0), IF ck THEN r.log ELSE l1)
              ELSE [node |-> r.node, log |-> IF ck THEN r.log ELSE l1]
        n1 == [n EXCEPT !.bhv = q.node, !.checked_cond = ck]
    IN  IF ~ck
        THEN IF Holds(n.cond, r.ctx)
             THEN Ret("Success", n1, r.ctx, q.log)
             ELSE Ret("Running", [n1 EXCEPT !.checked_cond = TRUE], r.ctx, q.log)
        ELSE Ret("Running", n1, r.ctx, q.log)

\* decor.rs, old_impl/decor.rs: RepeatUntil::update; the predicate is
\* evaluated, and the evaluation logged, only while checked_cond is false
RepeatUntilUpdate(im, n, c, path, lg) ==
    LET r  == Update(im, n.bhv, c, Append(path, 0), lg)
        q  == IF r.s # "Running"
              THEN Reset(im, r.node, r.s, Append(path, 0), r.log)
              ELSE [node |-> r.node, log |-> r.log]
        ck == IF r.s # "Running" THEN FALSE ELSE n.checked_cond
        n1 == [n EXCEPT !.bhv = q.node, !.checked_cond = ck]
        l1 == Append(q.log, CondEv(path, r.ctx, Holds(n.cond, r.ctx)))
    IN  IF ~ck
        THEN IF Holds(n.cond, r.ctx)
             THEN Ret("Success", n1, r.ctx, l1)
             ELSE Ret("Running", [n1 EXCEPT !.checked_cond = TRUE], r.ctx, l1)
        ELSE Ret("Running", n1, r.ctx, q.log)

\* RepeatUntilPass that hands the Failure of its child on
RepeatUntilPassUpdate_Once(im, n, c, path, lg) ==
    LET r == Update(im, n.bhv, c, Append(path, 0), lg)
    IN  Ret(r.s, [n EXCEPT !.bhv = r.node], r.ctx, r.log)

\* old_impl/decor.rs: a Failure of the child is answered with a reset and Running
RepeatUntilPassUpdate(im, n, c, path, lg) ==
    LET r == Update(im, n.bhv, c, Append(path, 0), lg)
    IN  IF r.s = "Failure"
        THEN LET q == Reset(im, r.node, "Failure", Append(path, 0), r.log)
             IN  Ret("Running", [n EXCEPT !.bhv = q.node], r.ctx, q.log)
        ELSE Ret(r.s, [n EXCEPT !.bhv = r.node], r.ctx, r.log)

\* old_impl/decor.rs: a Success of the child is answered with a reset and Running
RepeatUntilFailUpdate(im, n, c, path, lg) ==
    LET r == Update(im, n.bhv, c, Append(path, 0), lg)
    IN  IF r.s = "Success"
        THEN LET q == Reset(im, r.node, "Success", Append(path, 0), r.log)
             IN  Ret("Running", [n EXCEPT !.bhv = q.node], r.ctx, q.log)
        ELSE Ret(r.s, [n EXCEPT !.bhv = r.node], r.ctx, r.log)

\* update that returns after one child instead of going on to the next
ListUpdate_OneChild(im, n, c, path, lg) ==
    IF n.current >= Len(n.nodes)
    THEN Ret(PolicyStatus(n), n, c, lg)
    ELSE LET r  == Update(im, n.nodes[n.current + 1], c, Append(path, n.current), lg)
             n1 == [n EXCEPT !.nodes[n.current + 1] = r.node]
         IN  IF r.s # PolicyStatus(n)
             THEN Ret(r.s, n1, r.ctx, r.log)
             ELSE Ret(r.s, [n1 EXCEPT !.current = @ + 1], r.ctx, r.log)

\* update that stops on Running only and goes on after the other terminal status
ListUpdate_NoShortCircuit(im, n, c, path, lg) ==
    IF n.current >= Len(n.nodes)
    THEN Ret(PolicyStatus(n), n, c, lg)
    ELSE LET r  == Update(im, n.nodes[n.current + 1], c, Append(path, n.current), lg)
             n1 == [n EXCEPT !.nodes[n.current + 1] = r.node]
         IN  IF r.s = "Running"
             THEN Ret(r.s, n1, r.ctx, r.log)
             ELSE ListUpdate(im, [n1 EXCEPT !.current = @ + 1], r.ctx, path, r.log)

\* update that moves the cursor past a child that answers Running
ListUpdate_SkipRunning(im, n, c, path, lg) ==
    IF n.current >= Len(n.nodes)
    THEN Ret(PolicyStatus(n), n, c, lg)
    ELSE LET r  == Update(im, n.nodes[n.current + 1], c, Append(path, n.current), lg)
             n1 == [n EXCEPT !.nodes[n.current + 1] = r.node]
         IN  IF r.s = "Running"
             THEN Ret(r.s, [n1 EXCEPT !.current = @ + 1], r.ctx, r.log)
             ELSE IF r.s # PolicyStatus(n)
                  THEN Ret(r.s, n1, r.ctx, r.log)
                  ELSE ListUpdate(im, [n1 EXCEPT !.current = @ + 1], r.ctx, path, r.log)

\* update that puts the cursor back on the first child when it returns a terminal status
ListUpdate_Rewind(im, n, c, path, lg) ==
    IF n.current >= Len(n.nodes)
    THEN Ret(PolicyStatus(n), [n EXCEPT !.current = 0], c, lg)
    ELSE LET r  == Update(im, n.nodes[n.current + 1], c, Append(path, n.current), lg)
             n1 == [n EXCEPT !.nodes[n.current + 1] = r.node]
         IN  IF r.s = "Running"
             THEN Ret(r.s, n1, r.ctx, r.log)
             ELSE IF r.s # PolicyStatus(n)
                  THEN Ret(r.s, [n1 EXCEPT !.current = 0], r.ctx, r.log)
                  ELSE ListUpdate(im, [n1 EXCEPT !.current = @ + 1], r.ctx, path, r.log)

\* composite.rs: the loop of List::update, which never calls reset
ListUpdate(im, n, c, path, lg) ==
    IF n.current >= Len(n.nodes)
    THEN Ret(PolicyStatus(n), n, c, lg)
    ELSE LET r  == Update(im, n.nodes[n.current + 1], c, Append(path, n.current), lg)
             n1 == [n EXCEPT !.nodes[n.current + 1] = r.node]
         IN  IF r.s # PolicyStatus(n)
             THEN Ret(r.s, n1, r.ctx, r.log)
             ELSE ListUpdate(im, [n1 EXCEPT !.current = @ + 1], r.ctx, path, r.log)

\* reset that leaves the cursor where it is
ListReset_KeepCursor(im, n, status, path, lg) ==
    LET count == IF n.current > Len(n.nodes) THEN Len(n.nodes) ELSE n.current
        q     == ResetNodes(im, n, 0, count, path, lg)
    IN  [node |-> q.node, log |-> q.log]

\* List::reset: the children before the cursor are reset, then the cursor
ResetNodes(im, n, i, count, path, lg) ==
    IF i >= count
    THEN [node |-> n, log |-> lg]
    ELSE LET q == Reset(im, n.nodes[i + 1], PolicyStatus(n), Append(path, i), lg)
         IN  ResetNodes(im, [n EXCEPT !.nodes[i + 1] = q.node], i + 1, count, path, q.log)

ListReset(im, n, status, path, lg) ==
    LET count == IF n.current > Len(n.nodes) THEN Len(n.nodes) ELSE n.current
        q     == ResetNodes(im, n, 0, count, path, lg)
    IN  [node |-> [q.node EXCEPT !.current = 0], log |-> q.log]

\* old_impl/composite.rs: the loop of List::update, which resets on a terminal status
OldListUpdate(im, n, c, path, lg) ==
    IF n.current >= Len(n.nodes)
    THEN LET q == ListReset(im, n, PolicyStatus(n), path, lg)
         IN  Ret(PolicyStatus(n), q.node, c, q.log)
    ELSE LET r  == Update(im, n.nodes[n.current + 1], c, Append(path, n.current), lg)
             n1 == [n EXCEPT !.nodes[n.current + 1] = r.node]
         IN  IF r.s = PolicyStatus(n)
             THEN OldListUpdate(im, [n1 EXCEPT !.current = @ + 1], r.ctx, path, r.log)
             ELSE IF r.s = "Running"
                  THEN Ret("Running", n1, r.ctx, r.log)
                  ELSE LET q == ListReset(im, n1, r.s, path, r.log)
                       IN  Ret(r.s, q.node, r.ctx, q.log)

\* reset of Inv, Pass, Fail, RepeatUntil, RepeatUntilPass and RepeatUntilFail:
\* forwarded to the child unchanged
ForwardReset(im, n, status, path, lg) ==
    LET q == Reset(im, n.bhv, status, Append(path, 0), lg)
    IN  [node |-> [n EXCEPT !.bhv = q.node], log |-> q.log]

\* reset that resets the child and leaves the counter where it is
RepeatReset_KeepCounter(im, n, status, path, lg) ==
    LET q == Reset(im, n.bhv, status, Append(path, 0), lg)
    IN  [node |-> [n EXCEPT !.bhv = q.node], log |-> q.log]

\* decor.rs, old_impl/decor.rs: Repeat::reset
RepeatReset(im, n, status, path, lg) ==
    LET q == Reset(im, n.bhv, status, Append(path, 0), lg)
    IN  [node |-> [n EXCEPT !.bhv = q.node, !.current = 1], log |-> q.log]

\* a WhenAll that waits, as a Sequence does, at the first child that is Running
WhenAllUpdate_StopOnRunning(im, n, i, any_running, c, path, lg) ==
    IF i >= Len(n.nodes)
    THEN Ret("Success", n, c, lg)
    ELSE LET r  == Update(im, n.nodes[i + 1], c, Append(path, i), lg)
             n1 == [n EXCEPT !.nodes[i + 1] = r.node]
         IN  IF r.s = "Success"
             THEN WhenAllUpdate(im, n1, i + 1, any_running, r.ctx, path, r.log)
             ELSE Ret(r.s, n1, r.ctx, r.log)

\* old_impl/async_composite.rs: the loop of WhenAll::update from child i on
WhenAllUpdate(im, n, i, any_running, c, path, lg) ==
    IF i >= Len(n.nodes)
    THEN Ret(IF any_running THEN "Running" ELSE "Success", n, c, lg)
    ELSE LET r  == Update(im, n.nodes[i + 1], c, Append(path, i), lg)
             n1 == [n EXCEPT !.nodes[i + 1] = r.node]
         IN  CASE r.s = "Running" -> WhenAllUpdate(im, n1, i + 1, TRUE, r.ctx, path, r.log)
               [] r.s = "Success" -> WhenAllUpdate(im, n1, i + 1, any_running, r.ctx, path, r.log)
               [] r.s = "Failure" -> Ret("Failure", n1, r.ctx, r.log)

\* a WhenAny that waits, as a Selector does, at the first child that is Running
WhenAnyUpdate_StopOnRunning(im, n, i, any_running, c, path, lg) ==
    IF i >= Len(n.nodes)
    THEN Ret("Failure", n, c, lg)
    ELSE LET r  == Update(im, n.nodes[i + 1], c, Append(path, i), lg)
             n1 == [n EXCEPT !.nodes[i + 1] = r.node]
         IN  IF r.s = "Failure"
             THEN WhenAnyUpdate(im, n1, i + 1, any_running, r.ctx, path, r.log)
             ELSE Ret(r.s, n1, r.ctx, r.log)

\* old_impl/async_composite.rs: the loop of WhenAny::update from child i on
WhenAnyUpdate(im, n, i, any_running, c, path, lg) ==
    IF i >= Len(n.nodes)
    THEN Ret(IF any_running THEN "Running" ELSE "Failure", n, c, lg)
    ELSE LET r  == Update(im, n.nodes[i + 1], c, Append(path, i), lg)
             n1 == [n EXCEPT !.nodes[i + 1] = r.node]
         IN  CASE r.s = "Running" -> WhenAnyUpdate(im, n1, i + 1, TRUE, r.ctx, path, r.log)
               [] r.s = "Failure" -> WhenAnyUpdate(im, n1, i + 1, any_running, r.ctx, path, r.log)
               [] r.s = "Success" -> Ret("Success", n1, r.ctx, r.log)

\* dynamic dispatch of Bhv::update; the call is logged when it returns
Update(im, n, c, path, lg) ==
    LET r == CASE n.kind = "Action"      -> ActionUpdate(n, c, lg)
               [] n.kind = "Cond"        -> CondUpdate(n, c, lg)
               [] n.kind = "AsyncAction" -> AsyncActionUpdate(n, c, lg)
               [] n.kind = "AsyncFn"     -> AsyncFnUpdate(n, c, lg)
               [] n.kind = "Inv"         -> InvUpdate(im, n, c, path, lg)
               [] n.kind = "Pass"        -> PassUpdate(im, n, c, path, lg)
               [] n.kind = "Fail"        -> FailUpdate(im, n, c, path, lg)
               [] n.kind = "Repeat"      -> RepeatUpdate(im, n, c, path, lg)
               [] n.kind = "RepeatUntil" -> RepeatUntilUpdate(im, n, c, path, lg)
               [] n.kind = "RepeatUntilPass" -> RepeatUntilPassUpdate(im, n, c, path, lg)
               [] n.kind = "RepeatUntilFail" -> RepeatUntilFailUpdate(im, n, c, path, lg)
               [] n.kind = "WhenAll"     -> WhenAllUpdate(im, n, 0, FALSE, c, path, lg)
               [] n.kind = "WhenAny"     -> WhenAnyUpdate(im, n, 0, FALSE, c, path, lg)
               [] n.kind \in {"Seq", "Sel"} ->
                    IF im = "old" THEN OldListUpdate(im, n, c, path, lg)
                                  ELSE ListUpdate(im, n, c, path, lg)
    IN  [r EXCEPT !.log = Append(@, UpdEv(path, r.s, r.ctx))]

\* dynamic dispatch of Bhv::reset; the call is logged when it is made
Reset(im, n, status, path, lg) ==
    LET l == Append(lg, RstEv(path, status))
    IN  CASE n.kind \in {"Action", "Cond", "AsyncAction", "AsyncFn", "WhenAll", "WhenAny"} ->
                [node |-> n, log |-> l]
          [] n.kind \in {"Inv", "Pass", "Fail", "RepeatUntil", "RepeatUntilPass", "RepeatUntilFail"} ->
                ForwardReset(im, n, status, path, l)
          [] n.kind = "Repeat"          -> RepeatReset(im, n, status, path, l)
          [] n.kind \in {"Seq", "Sel"}  -> ListReset(im, n, status, path, l)

----------------------------------------------------------------------------
(* The trees the poll model is run on *)

R == "Running"

S == "Success"

F == "Failure"

\* v -= 1, v == 0, and two closures that need a second call to finish
Leaves ==
    { action("add", -1), cond(0, 1), async_action(<<R, S>>), async_action(<<R, F>>) }

Decor(T) ==
    { inv(b) : b \in T } \cup { pass(b) : b \in T } \cup { fail(b) : b \in T }
    \cup { repeat(b, k) : b \in T, k \in 1..MaxCount }
    \cup { repeat_until(b, 0, 1) : b \in T }

Lists(T, n) == UNION { [1..k -> T] : k \in 1..n }

Comp(T, n) == { seq(l) : l \in Lists(T, n) } \cup { sel(l) : l \in Lists(T, n) }

\* composites of leaves
Flat == Comp(Leaves, MaxLen)

\* one decorator or one composite of at most two leaves
Small == Decor(Leaves) \cup Comp(Leaves, 2)

\* a decorator over a small tree, or a composite with one small tree among its children
Nested ==
    Decor(Small)
    \cup Comp(Small, 1)
    \cup UNION { { seq(<<a, b>>), seq(<<b, a>>), sel(<<a, b>>), sel(<<b, a>>) } :
                    a \in Leaves, b \in Small }

\* v -= 1 and v = 5 do not commute: the order of the effects shows in the context
Effects == { action("add", -1), action("set", 5) }

Ordered == Comp(Effects, MaxLen + 1)

Generated == Leaves \cup Flat \cup Small \cup Nested \cup Ordered

print == action("add", 0)

\* lib.rs composites_test: the three branches on v
composites_test ==
    sel(<< seq(<<cond(0, 5), print>>), seq(<<cond(5, 25), print>>), print >>)

\* main.rs (poll): count to 5, then exit
main_tree ==
    sel(<< repeat_until(seq(<<print, action("add", 1)>>), 5, 6), print >>)

\* the trees of the tests, of main.rs and of the doc examples, with their contexts
Scenarios ==
    { <<seq(<<cond(42, 43), action("set", 42), print>>), 42>>,      \* lib.rs adaptors_test
      <<pass(print), 0>>, <<inv(pass(print)), 0>>,                   \* lib.rs decorators_test
      <<fail(print), 0>>, <<inv(fail(print)), 0>>,
      <<repeat(print, 3), 10>>,
      <<repeat_until(seq(<<print, action("add", -1)>>), 0, 1), 2>>,
      <<seq(<<print, action("add", -1), print>>), 0>>,               \* lib.rs composites_test
      <<composites_test, 25>>,
      <<repeat(action("add", -1), 3), 10>>,                          \* decor.rs repeat
      <<repeat_until(action("add", -1), -100, 8), 10>>,              \* decor.rs repeat_until
      <<main_tree, 0>> }

\* the doc example of async_action, for every number of steps up to its own
FibInputs == { <<fib, State(k)>> : k \in 0..FibSteps }

\* async_action of a closure that answers Running m times and then s
RunningThen(m, s) == async_action([i \in 1..(m + 1) |-> IF i <= m THEN R ELSE s])

\* a composite whose middle child needs several calls
Resumable ==
    UNION { { seq(<<a, RunningThen(m, s), b>>), sel(<<a, RunningThen(m, s), b>>) } :
              a \in {action("add", -1), cond(0, 1)}, b \in {action("add", -1), cond(0, 1)},
              m \in 0..MaxRunning, s \in Terminal }

\* a RepeatUntil that is run again by a Repeat, over a child that needs several calls
Rerun ==
    { repeat(repeat_until(RunningThen(m, st), 0, 1), 2) : m \in 1..MaxRunning, st \in Terminal }

\* a Repeat of a Repeat of a leaf that completes on every call
NestedRepeat ==
    { repeat(repeat(a, N), M) :
        a \in {action("add", -1), cond(0, 1)}, N \in 1..(MaxCount + 1), M \in 1..(MaxCount + 1) }

\* a RepeatUntil over an action, with predicates that hold on entry and
\* go on holding, or stop holding, after the action
DoWhile ==
    { repeat_until(a, lo, hi) :
        a \in {action("add", -1), action("add", 1), action("set", 5)},
        lo \in {-1, 0}, hi \in {1, 2} }

\* a RepeatUntil over a child that keeps a cursor or a counter between calls
MidRun ==
    { repeat_until(k, 0, 2) :
        k \in { seq(<<action("add", -1), RunningThen(m, S)>>) : m \in 1..MaxRunning }
              \cup { sel(<<cond(5, 6), RunningThen(m, F)>>) : m \in 1..MaxRunning }
              \cup { repeat(action("add", -1), MaxCount + 1) } }

PollInputs ==
    (Generated \X (0..MaxV0)) \cup Scenarios \cup FibInputs
    \cup (Resumable \X (0..1)) \cup (Rerun \X (0..1)) \cup (NestedRepeat \X (0..1))
    \cup (DoWhile \X (0..1)) \cup (MidRun \X (0..MaxV0))

\* i32::MIN
I32Min == -2147483647 - 1

\* the doc examples of repeat_until_pass and repeat_until_fail: count up to 5
until_pass_tree == repeat_until_pass(seq(<<print, action("add", 1), cond(5, 6)>>))

until_fail_tree == repeat_until_fail(seq(<<print, action("add", 1), cond(I32Min, 5)>>))

\* the decorators that old_impl alone has
OldDecor(T) == { repeat_until_pass(b) : b \in T } \cup { repeat_until_fail(b) : b \in T }

OldGenerated ==
    OldDecor(Leaves \cup Small)
    \cup UNION { { seq(<<a, b>>), sel(<<a, b>>), inv(b), repeat(b, MaxCount) } :
                    a \in Leaves, b \in OldDecor(Leaves) }

\* old_impl/composite.rs: Seq::with_nodes and Sel::with_nodes are public and take any Vec
EmptyLists == { seq(<<>>), sel(<<>>), seq(<<seq(<<>>), action("add", -1)>>) }

\* a RepeatUntilPass or RepeatUntilFail over a composite whose only child
\* counts its runs: seq!{ cond(v == 5).repeat(2) }.repeat_until_pass()
UntilCounted ==
    { repeat_until_pass(seq(<<repeat(cond(5, 6), 2)>>)),
      repeat_until_fail(sel(<<repeat(cond(0, 1), 2)>>)) }

OldInputs ==
    (OldGenerated \X (0..MaxV0)) \cup { <<until_pass_tree, 0>>, <<until_fail_tree, 0>> }
    \cup (EmptyLists \X {0}) \cup (UntilCounted \X {0})

----------------------------------------------------------------------------
(* Poll model: the tree in the hands of its caller *)

InitPoll ==
    /\ impl \in {"cur", "old"}
    /\ mode \in {"execute", "manual"}
    /\ \E in \in PollInputs \cup (IF impl = "old" THEN OldInputs ELSE {}) :
          tree = in[1] /\ ctx = in[2]
    /\ tree0 = tree
    /\ ctx0 = ctx
    /\ runctx = ctx
    /\ last = "None"
    /\ lastop = "none"
    /\ calls = 0
    /\ log = <<>>
    /\ hist = <<>>
    /\ source = <<>>
    /\ queue = <<>>
    /\ done = FALSE
    /\ result = "None"
    /\ twin = NoTwin

\* execute that returns true on any status that ends the loop
ExecuteResult_AlwaysTrue(s) == IF s = "Running" THEN "None" ELSE "true"

\* core.rs: the match of Bhv::execute on the status update returned
ExecuteResult(s) ==
    CASE s = "Running" -> "None"
      [] s = "Success" -> "true"
      [] s = "Failure" -> "false"

\* core.rs: one iteration of the loop of Bhv::execute
Execute ==
    /\ mode = "execute"
    /\ ~done
    /\ calls < MaxTicks
    /\ LET r == Update(impl, tree, ctx, <<>>, <<>>)
       IN  /\ tree' = r.node
           /\ ctx' = r.ctx
           /\ last' = r.s
           /\ log' = r.log
           /\ hist' = hist \o r.log
           /\ done' = (r.s # "Running")
           /\ result' = ExecuteResult(r.s)
    /\ lastop' = "update"
    /\ calls' = calls + 1
    /\ UNCHANGED <<impl, mode, tree0, ctx0, runctx, source, queue, twin>>

\* the caller calls update on the root
CallUpdate ==
    /\ mode = "manual"
    /\ calls < MaxCalls
    /\ LET r == Update(impl, tree, ctx, <<>>, <<>>)
       IN  /\ tree' = r.node
           /\ ctx' = r.ctx
           /\ last' = r.s
           /\ log' = r.log
           /\ hist' = hist \o r.log
    /\ lastop' = "update"
    /\ calls' = calls + 1
    /\ UNCHANGED <<impl, mode, tree0, ctx0, runctx, source, queue, done, result, twin>>

\* the caller calls reset on the root, after a terminal status or to abandon a run
CallReset ==
    /\ mode = "manual"
    /\ calls < MaxCalls
    /\ \E st \in Terminal :
          LET q == Reset(impl, tree, st, <<>>, <<>>)
          IN  /\ tree' = q.node
              /\ log' = q.log
    /\ hist' = <<>>
    /\ runctx' = ctx
    /\ last' = "None"
    /\ lastop' = "reset"
    /\ calls' = calls + 1
    /\ UNCHANGED <<impl, mode, tree0, ctx, ctx0, source, queue, done, result, twin>>

NextPoll == Execute \/ CallUpdate \/ CallReset

SpecPoll == InitPoll /\ [][NextPoll]_vars

----------------------------------------------------------------------------
(* core.rs: execute on the trees whose leaves complete on every call *)

RECURSIVE Instant(_)
\* n is built from cond and action leaves with Sequence, Selector, Inv, Pass, Fail and Repeat
Instant(n) ==
    CASE n.kind \in {"Action", "Cond"}              -> TRUE
      [] n.kind \in {"Seq", "Sel"}                  -> \A i \in 1..Len(n.nodes) : Instant(n.nodes[i])
      [] n.kind \in {"Inv", "Pass", "Fail", "Repeat"} -> Instant(n.bhv)
      [] OTHER                                      -> FALSE

RECURSIVE CallSum(_, _)
RECURSIVE CallBound(_)
\* the update calls on the root that are enough for a tree of such nodes
\* to return a terminal status: one for a leaf, the sum over the children
\* for a composite, count times as many as its child for a Repeat
CallBound(n) ==
    CASE n.kind \in {"Action", "Cond"}        -> 1
      [] n.kind \in {"Seq", "Sel"}            -> IF n.nodes = <<>> THEN 1 ELSE CallSum(n.nodes, 1)
      [] n.kind \in {"Inv", "Pass", "Fail"}   -> CallBound(n.bhv)
      [] n.kind = "Repeat"                    ->
            (IF n.count = 0 THEN 1 ELSE n.count) * CallBound(n.bhv)

CallSum(nodes, i) ==
    IF i > Len(nodes) THEN 0 ELSE CallBound(nodes[i]) + CallSum(nodes, i + 1)

\* the doc example of repeat with longer counts, over subtrees without a Repeat
Countdown ==
    { repeat(b, N) :
        b \in { action("add", -1), inv(action("add", -1)),
                seq(<<action("add", -1), cond(0, 1)>>), sel(<<cond(0, 1), action("add", -1)>>) },
        N \in 1..(MaxCount + 2) }

ExecuteInputs ==
    { in \in PollInputs \cup (Countdown \X (0..1)) :
        Instant(in[1]) /\ CallBound(in[1]) <= MaxTicks }

InitExecute ==
    /\ impl \in {"cur", "old"}
    /\ mode = "execute"
    /\ \E in \in ExecuteInputs : tree = in[1] /\ ctx = in[2]
    /\ tree0 = tree
    /\ ctx0 = ctx
    /\ runctx = ctx
    /\ last = "None"
    /\ lastop = "none"
    /\ calls = 0
    /\ log = <<>>
    /\ hist = <<>>
    /\ source = <<>>
    /\ queue = <<>>
    /\ done = FALSE
    /\ result = "None"
    /\ twin = NoTwin

\* an iteration of the loop of execute, by its guard and its count of
\* update calls: the steps of Execute, and no others, are such steps, and
\* one is possible exactly when Execute is
Iteration == mode = "execute" /\ ~done /\ calls < MaxTicks /\ calls' = calls + 1

\* the loop of execute neither blocks nor yields: while update answers
\* Running the next iteration is taken
SpecExecute == InitExecute /\ [][Execute]_vars /\ WF_calls(Iteration)

----------------------------------------------------------------------------
(* old_impl/async_composite.rs: the trees with WhenAll and WhenAny *)

\* async_action(|v| Status::Running) of the doc examples
running == async_action(<<R>>)

AsyncLeaves == Leaves \cup { running, action("set", 20) }

When(T, n) == { when_all(l) : l \in Lists(T, n) } \cup { when_any(l) : l \in Lists(T, n) }

\* a leaf that is Running once between two leaves with effects, and the like
AsyncOrdered ==
    UNION { { when_all(<<a, b, c>>), when_any(<<a, b, c>>) } :
              a \in {async_action(<<R, S>>), async_action(<<R, F>>)},
              b \in {action("add", -1), cond(0, 1), inv(cond(0, 1))},
              c \in {action("set", 20), async_action(<<R, S>>), inv(action("add", -1))} }

AsyncNested ==
    UNION { { seq(<<w, a>>), sel(<<w, a>>), inv(w), repeat(w, MaxCount),
              when_all(<<w, a>>), when_any(<<a, w>>),
              when_all(<<seq(<<a, b>>), b>>), when_any(<<sel(<<a, b>>), b>>) } :
              w \in When(Leaves, 1) \cup { when_all(<<async_action(<<R, S>>), action("add", -1)>>),
                                          when_any(<<async_action(<<R, F>>), cond(0, 1)>>) },
              a \in {async_action(<<R, S>>), action("add", -1)},
              b \in {async_action(<<R, F>>), cond(0, 1)} }

\* the doc example of when_all!
when_all_tree == when_all(<<running, action("set", 20), cond(0, 0), action("set", 40)>>)

\* the doc example of when_any!
when_any_tree == when_any(<<running, action("set", 20), cond(0, 0)>>)

AsyncInputs ==
    ((When(AsyncLeaves, MaxLen) \cup AsyncOrdered \cup AsyncNested) \X (0..MaxV0))
    \cup { <<when_all_tree, 10>>, <<when_any_tree, 10>> }

InitAsync ==
    /\ impl = "old"
    /\ mode \in {"execute", "manual"}
    /\ \E in \in AsyncInputs : tree = in[1] /\ ctx = in[2]
    /\ tree0 = tree
    /\ ctx0 = ctx
    /\ runctx = ctx
    /\ last = "None"
    /\ lastop = "none"
    /\ calls = 0
    /\ log = <<>>
    /\ hist = <<>>
    /\ source = <<>>
    /\ queue = <<>>
    /\ done = FALSE
    /\ result = "None"
    /\ twin = NoTwin

SpecAsync == InitAsync /\ [][NextPoll]_vars

----------------------------------------------------------------------------
(* Reactive model (events_impl): events and their kinds *)

\* the marker event types of main.rs and of the doc examples
EventTypes == {"Tick", "Exit", "Step", "()"}

\* std::any::type_name::<E>(): a marker type is told by its name
type_name(E) == E

\* EventTypeExt::static_event_name
static_event_name(E) == type_name(E)

\* DefaultHasher over a name: the names of the model hash to different values
Hash(name) ==
    CASE name = "Tick" -> 7203
      [] name = "Exit" -> 1559
      [] name = "Step" -> 4410
      [] name = "()"   -> 2866
      [] OTHER         -> 9001

\* EventTypeExt::static_event_type
static_event_type(E) == Hash(type_name(E))

\* an event of marker type E; val tells the events of one source apart
Event(E, val) == [type |-> E, val |-> val]

\* impl Event for E: EventType
event_name(e) == static_event_name(e.type)

\* a kind that depends on the value the event carries
event_type_ByValue(e) == Hash(event_name(e)) + e.val

\* EventExt::event_type
event_type(e) == Hash(event_name(e))

----------------------------------------------------------------------------
(* Reactive model: nodes, should_react_to and react *)

ev_seq(nodes) == [kind |-> "Seq", nodes |-> nodes]

ev_sel(nodes) == [kind |-> "Sel", nodes |-> nodes]

ev_repeat(b, count) == [kind |-> "Repeat", bhv |-> b, count |-> count, current |-> 0]

wait_for(b, E) == [kind |-> "WaitFor", bhv |-> b, ekind |-> static_event_type(E)]

ReactEv(path, e, s, c) == [op |-> "react", p |-> path, e |-> e, s |-> s, c |-> c]

RECURSIVE ShouldReactTo(_, _)
RECURSIVE React(_, _, _, _, _)
RECURSIVE ListReact(_, _, _, _, _, _)

\* the default of the trait, kept by Action, Cond and AsyncAction
DefaultShouldReactTo(n, k) == TRUE

ForwardShouldReactTo(n, k) == ShouldReactTo(n.bhv, k)

\* a Repeat that stays interested whatever its counter
RepeatShouldReactTo_Always(n, k) == ShouldReactTo(n.bhv, k)

\* events_impl/decor.rs: interested while repetitions are left
RepeatShouldReactTo(n, k) == n.current < n.count /\ ShouldReactTo(n.bhv, k)

WaitForShouldReactTo(n, k) == n.ekind = k

ListShouldReactTo(n, k) == ShouldReactTo(n.nodes[1], k)

ShouldReactTo(n, k) ==
    CASE n.kind \in {"Action", "Cond", "AsyncAction"} -> DefaultShouldReactTo(n, k)
      [] n.kind \in {"Inv", "Pass", "Fail", "RepeatUntilPass", "RepeatUntilFail"} ->
            ForwardShouldReactTo(n, k)
      [] n.kind = "Repeat"         -> RepeatShouldReactTo(n, k)
      [] n.kind = "WaitFor"        -> WaitForShouldReactTo(n, k)
      [] n.kind \in {"Seq", "Sel"} -> ListShouldReactTo(n, k)

ActionReact(n, e, c, lg) == Ret("Success", n, Effect(n, c), lg)

CondReact(n, e, c, lg) == Ret(IF Holds(n, c) THEN "Success" ELSE "Failure", n, c, lg)

AsyncActionReact(n, e, c, lg) ==
    Ret(n.script[n.pos], [n EXCEPT !.pos = IF @ >= Len(n.script) THEN 1 ELSE @ + 1], c, lg)

\* Inv, Pass, Fail, RepeatUntilPass and RepeatUntilFail map the status of the child
StatusMap(kind, s) ==
    CASE kind = "Inv"  -> (CASE s = "Running" -> "Running"
                             [] s = "Success" -> "Failure"
                             [] s = "Failure" -> "Success")
      [] kind = "Pass" -> (IF s = "Running" THEN "Running" ELSE "Success")
      [] kind = "Fail" -> (IF s = "Running" THEN "Running" ELSE "Failure")
      [] kind = "RepeatUntilPass" -> (IF s = "Success" THEN "Success" ELSE "Running")
      [] kind = "RepeatUntilFail" -> (IF s = "Failure" THEN "Failure" ELSE "Running")

MapReact(n, e, c, path, lg) ==
    LET r == React(n.bhv, e, c, Append(path, 0), lg)
    IN  Ret(StatusMap(n.kind, r.s), [n EXCEPT !.bhv = r.node], r.ctx, r.log)

RepeatReact(n, e, c, path, lg) ==
    LET r == React(n.bhv, e, c, Append(path, 0), lg)
    IN  IF r.s = "Running"
        THEN Ret("Running", [n EXCEPT !.bhv = r.node], r.ctx, r.log)
        ELSE Ret("Running", [n EXCEPT !.bhv = r.node, !.current = @ + 1], r.ctx, r.log)

WaitForReact(n, e, c, path, lg) ==
    LET r == React(n.bhv, e, c, Append(path, 0), lg)
    IN  Ret(r.s, [n EXCEPT !.bhv = r.node], r.ctx, r.log)

\* react that leaves out the children that are not interested and goes on
\* to the later ones
ListReact_Filter(n, i, e, c, path, lg) ==
    IF i >= Len(n.nodes)
    THEN Ret(PolicyStatus(n), n, c, lg)
    ELSE IF ~ShouldReactTo(n.nodes[i + 1], event_type(e))
         THEN ListReact(n, i + 1, e, c, path, lg)
         ELSE LET r  == React(n.nodes[i + 1], e, c, Append(path, i), lg)
                  n1 == [n EXCEPT !.nodes[i + 1] = r.node]
              IN  IF r.s = PolicyStatus(n)
                  THEN ListReact(n1, i + 1, e, r.ctx, path, r.log)
                  ELSE Ret(r.s, n1, r.ctx, r.log)

\* react that goes on to the next child after every terminal status
ListReact_NoShortCircuit(n, i, e, c, path, lg) ==
    IF i >= Len(n.nodes) \/ ~ShouldReactTo(n.nodes[i + 1], event_type(e))
    THEN Ret(PolicyStatus(n), n, c, lg)
    ELSE LET r  == React(n.nodes[i + 1], e, c, Append(path, i), lg)
             n1 == [n EXCEPT !.nodes[i + 1] = r.node]
         IN  IF r.s # "Running"
             THEN ListReact(n1, i + 1, e, r.ctx, path, r.log)
             ELSE Ret(r.s, n1, r.ctx, r.log)

\* react that starts the scan at a child that is in the middle of its script
ListReact_Resume(n, i, e, c, path, lg) ==
    LET mid   == { k \in 1..Len(n.nodes) : n.nodes[k].kind = "AsyncAction" /\ n.nodes[k].pos > 1 }
        start == IF i = 0 /\ mid # {}
                 THEN (CHOOSE k \in mid : \A m \in mid : k <= m) - 1
                 ELSE i
    IN  IF start >= Len(n.nodes) \/ ~ShouldReactTo(n.nodes[start + 1], event_type(e))
        THEN Ret(PolicyStatus(n), n, c, lg)
        ELSE LET r  == React(n.nodes[start + 1], e, c, Append(path, start), lg)
                 n1 == [n EXCEPT !.nodes[start + 1] = r.node]
             IN  IF r.s = PolicyStatus(n)
                 THEN ListReact(n1, start + 1, e, r.ctx, path, r.log)
                 ELSE Ret(r.s, n1, r.ctx, r.log)

\* List::react from child i on: the children are taken while they are
\* interested in the kind of the event
ListReact(n, i, e, c, path, lg) ==
    IF i >= Len(n.nodes) \/ ~ShouldReactTo(n.nodes[i + 1], event_type(e))
    THEN Ret(PolicyStatus(n), n, c, lg)
    ELSE LET r  == React(n.nodes[i + 1], e, c, Append(path, i), lg)
             n1 == [n EXCEPT !.nodes[i + 1] = r.node]
         IN  IF r.s = PolicyStatus(n)
             THEN ListReact(n1, i + 1, e, r.ctx, path, r.log)
             ELSE Ret(r.s, n1, r.ctx, r.log)

\* dynamic dispatch of Bhv::react; the call is logged when it returns
React(n, e, c, path, lg) ==
    LET r == CASE n.kind = "Action"      -> ActionReact(n, e, c, lg)
               [] n.kind = "Cond"        -> CondReact(n, e, c, lg)
               [] n.kind = "AsyncAction" -> AsyncActionReact(n, e, c, lg)
               [] n.kind \in {"Inv", "Pass", "Fail", "RepeatUntilPass", "RepeatUntilFail"} ->
                    MapReact(n, e, c, path, lg)
               [] n.kind = "Repeat"      -> RepeatReact(n, e, c, path, lg)
               [] n.kind = "WaitFor"     -> WaitForReact(n, e, c, path, lg)
               [] n.kind \in {"Seq", "Sel"} -> ListReact(n, 0, e, c, path, lg)
    IN  [r EXCEPT !.log = Append(@, ReactEv(path, e, r.s, r.ctx))]

----------------------------------------------------------------------------
(* The trees and event sources the reactive model is run on *)

EvLeaves ==
    { action("add", 1), cond(0, 1), async_action(<<R, S>>), async_action(<<R, F>>) }

GateTypes == {"Tick", "Exit"}

EvDecor(T) ==
    { inv(b) : b \in T } \cup { pass(b) : b \in T } \cup { fail(b) : b \in T }
    \cup { ev_repeat(b, k) : b \in T, k \in 1..MaxCount }
    \cup { repeat_until_pass(b) : b \in T } \cup { repeat_until_fail(b) : b \in T }
    \cup { wait_for(b, E) : b \in T, E \in GateTypes }

EvComp(T, n) == { ev_seq(l) : l \in Lists(T, n) } \cup { ev_sel(l) : l \in Lists(T, n) }

EvSmall == EvDecor(EvLeaves) \cup EvComp(EvLeaves, 2)

EvNested ==
    EvDecor(EvSmall)
    \cup EvComp(EvSmall, 1)
    \cup UNION { { ev_seq(<<a, b>>), ev_seq(<<b, a>>), ev_sel(<<a, b>>), ev_sel(<<b, a>>) } :
                    a \in EvLeaves, b \in EvSmall }

EvGenerated == EvLeaves \cup EvComp(EvLeaves, MaxLen) \cup EvSmall \cup EvNested

\* the events of a source carry their position, as Tick(0), Tick(1), ... do
SourceOf(types) == [i \in 1..Len(types) |-> Event(types[i], i - 1)]

Sources == { SourceOf(t) : t \in UNION { [1..k -> GateTypes] : k \in 0..MaxEvents } }

\* main.rs (events): five ticks, then Exit
main_events == SourceOf(<<"Tick", "Tick", "Tick", "Tick", "Tick", "Exit">>)

\* main.rs (events)
main_ev_tree == ev_seq(<< print, action("add", 1), wait_for(print, "Exit") >>)

\* two increments, then the action gated on Exit
gated_seq == ev_seq(<< action("add", 1), action("add", 1), wait_for(print, "Exit") >>)

EvScenarios ==
    { <<main_ev_tree, 0, main_events>>,
      <<gated_seq, 0, main_events>>,
      <<ev_seq(<<print, wait_for(print, "Exit")>>), 0, SourceOf(<<"Step", "Step", "Exit">>)>> }  \* bhv_ext.rs wait_for

\* a gate between two children that take every event, and behind a first
\* child that stops taking events
EvGated ==
    UNION { { ev_seq(<<a, wait_for(b, E), c>>), ev_sel(<<a, wait_for(b, E), c>>),
              ev_seq(<<ev_repeat(a, 1), b, c>>), ev_sel(<<ev_repeat(a, 1), b, c>>),
              wait_for(ev_seq(<<wait_for(a, E), c>>), "Tick") } :
              a \in {action("add", 1), cond(0, 1)}, b \in {action("add", 1)},
              c \in {action("add", 1), cond(0, 1)}, E \in GateTypes }

\* a child that needs several events behind two children that complete on every event
EvMidRun ==
    UNION { { ev_seq(<<a, b, RunningThen(m, S)>>), ev_sel(<<fail(a), fail(b), RunningThen(m, F)>>) } :
              a \in {action("add", 1), cond(0, 1)}, b \in {action("add", 1)},
              m \in 1..MaxRunning }

ReactInputs ==
    (EvGenerated \X (0..MaxV0) \X Sources) \cup EvScenarios \cup (EvGated \X (0..1) \X Sources)
    \cup (EvMidRun \X (0..1) \X Sources)

----------------------------------------------------------------------------
(* Reactive model: the tree driven by BhvExt::execute *)

InitReact ==
    /\ impl = "events"
    /\ mode = "react"
    /\ \E in \in ReactInputs : tree = in[1] /\ ctx = in[2] /\ source = in[3]
    /\ queue = source
    /\ tree0 = tree
    /\ ctx0 = ctx
    /\ runctx = ctx
    /\ last = "None"
    /\ lastop = "none"
    /\ calls = 0
    /\ log = <<>>
    /\ hist = <<>>
    /\ done = FALSE
    /\ result = "None"
    /\ twin = NoTwin

SkipEv(e) == [op |-> "skip", p |-> <<>>, e |-> e, s |-> "None"]

\* BhvExt::execute: the source has no event left, the loop ends
ExecuteEnd ==
    /\ done' = TRUE
    /\ lastop' = "end"
    /\ log' = <<>>
    /\ UNCHANGED <<tree, ctx, last, calls, hist, queue>>

\* execute that skips the event with continue instead of break
ExecuteBreak_Continue(e) ==
    /\ done' = FALSE
    /\ lastop' = "skip"
    /\ log' = <<>>
    /\ hist' = Append(hist, SkipEv(e))
    /\ UNCHANGED <<tree, ctx, last, calls>>

\* BhvExt::execute: the root is not interested in the kind of the event: break
ExecuteBreak(e) ==
    /\ done' = TRUE
    /\ lastop' = "skip"
    /\ log' = <<>>
    /\ hist' = Append(hist, SkipEv(e))
    /\ UNCHANGED <<tree, ctx, last, calls>>

\* execute that returns on Failure only
ExecuteReact_FailureOnly(e) ==
    LET r == React(tree, e, ctx, <<>>, <<>>)
    IN  /\ tree' = r.node
        /\ ctx' = r.ctx
        /\ last' = r.s
        /\ log' = r.log
        /\ hist' = hist \o r.log
        /\ done' = (r.s = "Failure")
        /\ lastop' = "react"
        /\ calls' = calls + 1

\* BhvExt::execute: the root reacts to the event; Running continues, anything else returns
ExecuteReact(e) ==
    LET r == React(tree, e, ctx, <<>>, <<>>)
    IN  /\ tree' = r.node
        /\ ctx' = r.ctx
        /\ last' = r.s
        /\ log' = r.log
        /\ hist' = hist \o r.log
        /\ done' = (r.s # "Running")
        /\ lastop' = "react"
        /\ calls' = calls + 1

\* events_impl/bhv_ext.rs: one iteration of the loop of BhvExt::execute, or its end
ReactExecute ==
    /\ mode = "react"
    /\ ~done
    /\ IF queue = <<>>
       THEN ExecuteEnd
       ELSE LET e == Head(queue)
            IN  /\ queue' = Tail(queue)
                /\ IF ~ShouldReactTo(tree, event_type(e))
                   THEN ExecuteBreak(e)
                   ELSE ExecuteReact(e)
    /\ result' = IF done' THEN "unit" ELSE "None"
    /\ UNCHANGED <<impl, mode, tree0, ctx0, runctx, source, twin>>

NextReact == ReactExecute

SpecReact == InitReact /\ [][NextReact]_vars

----------------------------------------------------------------------------
(* Reactive model: the tree driven by BhvExt::execute over UnitEventPump *)

\* events.rs: Iterator::next of UnitEventPump, Some(&()) on every call
UnitEventPump == Event("()", 0)

\* the doc examples of repeat, repeat_until_pass and repeat_until_fail
ev_repeat_tree == ev_repeat(action("add", -1), 3)

ev_until_pass_tree == repeat_until_pass(ev_seq(<<print, action("add", 1), cond(5, 6)>>))

ev_until_fail_tree == repeat_until_fail(ev_seq(<<print, action("add", 1), cond(I32Min, 5)>>))

PumpInputs ==
    (EvGenerated \X (0..MaxV0))
    \cup { <<ev_repeat_tree, 10>>, <<ev_until_pass_tree, 0>>, <<ev_until_fail_tree, 0>> }

InitPump ==
    /\ impl = "events"
    /\ mode = "pump"
    /\ \E in \in PumpInputs : tree = in[1] /\ ctx = in[2]
    /\ source = <<>>
    /\ queue = <<>>
    /\ tree0 = tree
    /\ ctx0 = ctx
    /\ runctx = ctx
    /\ last = "None"
    /\ lastop = "none"
    /\ calls = 0
    /\ log = <<>>
    /\ hist = <<>>
    /\ done = FALSE
    /\ result = "None"
    /\ twin = NoTwin

\* events_impl/bhv_ext.rs: one iteration of the loop of BhvExt::execute on
\* the next event of UnitEventPump, which never ends
PumpExecute ==
    /\ mode = "pump"
    /\ ~done
    /\ calls < MaxTicks
    /\ IF ~ShouldReactTo(tree, event_type(UnitEventPump))
       THEN ExecuteBreak(UnitEventPump)
       ELSE ExecuteReact(UnitEventPump)
    /\ result' = IF done' THEN "unit" ELSE "None"
    /\ UNCHANGED <<impl, mode, tree0, ctx0, runctx, source, queue, twin>>

NextPump == PumpExecute

SpecPump == InitPump /\ [][NextPump]_vars

----------------------------------------------------------------------------
(* Every variant: the poll trees and the reactive trees under their drivers *)

InitAll == InitPoll \/ InitReact \/ InitPump

NextAll == NextPoll \/ NextReact \/ NextPump

SpecAll == InitAll /\ [][NextAll]_vars

----------------------------------------------------------------------------
(* Two trees given the same calls *)

\* a closure that needs two more calls to finish
PairLeaves == Leaves \cup { async_action(<<R, R, S>>) }

\* a Selector and the Sequence of the inverted children, inverted
DeMorgan(a, b) == << sel(<<a, b>>), inv(seq(<<inv(a), inv(b)>>)) >>

DeMorganPairs ==
    UNION { { DeMorgan(a, b), DeMorgan(b, a) } : a \in PairLeaves \cup Small, b \in PairLeaves }

\* a node and the node inverted twice
InvInv(n) == << n, inv(inv(n)) >>

InvInvPairs == { InvInv(n) : n \in PairLeaves \cup Small }

EvInvInvPairs == { InvInv(n) : n \in EvLeaves \cup EvSmall }

\* a node and the composites that have it as their only child
SinglePairs ==
    UNION { { <<c, seq(<<c>>)>>, <<c, sel(<<c>>)>> } : c \in PairLeaves \cup Small }

\* a node repeated with count 0 and with count 1
ZeroOne(n) == << repeat(n, 0), repeat(n, 1) >>

ZeroOnePairs == { ZeroOne(n) : n \in PairLeaves \cup Small }

PollPairs == DeMorganPairs \cup InvInvPairs \cup SinglePairs \cup ZeroOnePairs

InitPair ==
    /\ mode = "pair"
    /\ \/ /\ impl \in {"cur", "old"}
          /\ \E pr \in PollPairs, v \in 0..MaxV0 :
                tree = pr[1] /\ twin = Twin(pr[2], v) /\ ctx = v
          /\ source = <<>>
       \/ /\ impl = "events"
          /\ \E pr \in EvInvInvPairs, v \in 0..MaxV0 :
                tree = pr[1] /\ twin = Twin(pr[2], v) /\ ctx = v
          /\ source \in Sources
    /\ queue = source
    /\ tree0 = tree
    /\ ctx0 = ctx
    /\ runctx = ctx
    /\ last = "None"
    /\ lastop = "none"
    /\ calls = 0
    /\ log = <<>>
    /\ hist = <<>>
    /\ done = FALSE
    /\ result = "None"

\* the caller calls update on the root of each tree
PairUpdate ==
    /\ mode = "pair" /\ impl \in {"cur", "old"}
    /\ calls < MaxPairCalls
    /\ LET r == Update(impl, tree, ctx, <<>>, <<>>)
           t == Update(impl, twin.tree, twin.ctx, <<>>, <<>>)
       IN  /\ tree' = r.node
           /\ ctx' = r.ctx
           /\ last' = r.s
           /\ log' = r.log
           /\ hist' = hist \o r.log
           /\ twin' = [twin EXCEPT !.tree = t.node, !.ctx = t.ctx, !.last = t.s,
                                   !.log = t.log, !.hist = @ \o t.log]
    /\ lastop' = "update"
    /\ calls' = calls + 1
    /\ UNCHANGED <<impl, mode, tree0, ctx0, runctx, source, queue, done, result>>

\* the caller calls reset on the root of each tree, with the same status
PairReset ==
    /\ mode = "pair" /\ impl \in {"cur", "old"}
    /\ calls < MaxPairCalls
    /\ \E st \in Terminal :
          LET q == Reset(impl, tree, st, <<>>, <<>>)
              t == Reset(impl, twin.tree, st, <<>>, <<>>)
          IN  /\ tree' = q.node
              /\ log' = q.log
              /\ twin' = [twin EXCEPT !.tree = t.node, !.last = "None",
                                      !.log = t.log, !.hist = <<>>]
    /\ hist' = <<>>
    /\ runctx' = ctx
    /\ last' = "None"
    /\ lastop' = "reset"
    /\ calls' = calls + 1
    /\ UNCHANGED <<impl, mode, tree0, ctx, ctx0, source, queue, done, result>>

\* the caller calls react on the root of each tree with the next event of the source
PairReact ==
    /\ mode = "pair" /\ impl = "events"
    /\ queue # <<>>
    /\ LET e == Head(queue)
           r == React(tree, e, ctx, <<>>, <<>>)
           t == React(twin.tree, e, twin.ctx, <<>>, <<>>)
       IN  /\ tree' = r.node
           /\ ctx' = r.ctx
           /\ last' = r.s
           /\ log' = r.log
           /\ hist' = hist \o r.log
           /\ twin' = [twin EXCEPT !.tree = t.node, !.ctx = t.ctx, !.last = t.s,
                                   !.log = t.log, !.hist = @ \o t.log]
    /\ queue' = Tail(queue)
    /\ lastop' = "react"
    /\ calls' = calls + 1
    /\ UNCHANGED <<impl, mode, tree0, ctx0, runctx, source, done, result>>

\* events_impl/decor.rs: the inherent Repeat::reset, which takes no status
EvRepeatReset(n) == [n EXCEPT !.current = 0]

\* a call of Repeat::reset of events_impl on the root
EvRstEv == [op |-> "reset", p |-> <<>>, s |-> "None"]

\* the caller calls Repeat::reset on each tree it holds as a Repeat: the
\* method is not part of the trait, so that a tree held as anything else,
\* an Inv<Inv<Repeat<_>>> too, has no reset to call
PairRepeatReset ==
    /\ mode = "pair" /\ impl = "events"
    /\ calls < MaxPairCalls
    /\ tree.kind = "Repeat" \/ twin.tree.kind = "Repeat"
    /\ IF tree.kind = "Repeat"
       THEN /\ tree' = EvRepeatReset(tree)
            /\ log' = <<EvRstEv>>
            /\ hist' = Append(hist, EvRstEv)
       ELSE /\ log' = <<>>
            /\ UNCHANGED <<tree, hist>>
    /\ twin' = IF twin.tree.kind = "Repeat"
               THEN [twin EXCEPT !.tree = EvRepeatReset(@), !.log = <<EvRstEv>>,
                                 !.hist = Append(@, EvRstEv)]
               ELSE [twin EXCEPT !.log = <<>>]
    /\ lastop' = "reset"
    /\ calls' = calls + 1
    /\ UNCHANGED <<impl, mode, tree0, ctx, ctx0, runctx, last, source, queue, done, result>>

NextPair == PairUpdate \/ PairReset \/ PairReact \/ PairRepeatReset

SpecPair == InitPair /\ [][NextPair]_vars

----------------------------------------------------------------------------
(* Construction of a composite, then its run *)

\* no tree has been built yet
NotBuilt == [kind |-> "None", nodes |-> <<>>]

\* the child lists a caller can write: the empty one too
Lists0(T, n) == {<<>>} \cup Lists(T, n)

\* old_impl, events_impl: the public Sel::with_nodes and Seq::with_nodes
\* take the Vec as it is
with_nodes(im, k, nodes) ==
    IF im = "events"
    THEN (IF k = "Seq" THEN ev_seq(nodes) ELSE ev_sel(nodes))
    ELSE (IF k = "Seq" THEN seq(nodes) ELSE sel(nodes))

\* sel! and seq!: no argument is a compile_error!, one or more are boxed
\* into a Vec and handed to with_nodes
MacroExpand(im, k, args) ==
    IF args = <<>> THEN [kind |-> "compile_error"] ELSE with_nodes(im, k, args)

InitBuild ==
    /\ mode = "build"
    /\ impl \in {"cur", "old", "events"}
    /\ tree = NotBuilt
    /\ tree0 = NotBuilt
    /\ ctx \in 0..MaxV0
    /\ ctx0 = ctx
    /\ runctx = ctx
    /\ source \in (IF impl = "events" THEN { sc \in Sources : Len(sc) >= 1 } ELSE {<<>>})
    /\ queue = source
    /\ last = "None"
    /\ lastop = "none"
    /\ calls = 0
    /\ log = <<>>
    /\ hist = <<>>
    /\ done = FALSE
    /\ result = "None"
    /\ twin = NoTwin

\* the mode of the run that follows the construction
RunModes(im) == IF im = "events" THEN {"react"} ELSE {"execute", "manual"}

BuildLeaves(im) == IF im = "events" THEN EvLeaves ELSE Leaves

\* the tree is written with sel! or seq!
BuildMacro ==
    /\ mode = "build"
    /\ \E k \in {"Seq", "Sel"}, args \in Lists0(BuildLeaves(impl), MaxLen) :
          IF MacroExpand(impl, k, args).kind = "compile_error"
          THEN /\ result' = "compile_error"
               /\ done' = TRUE
               /\ mode' = "rejected"
               /\ UNCHANGED <<tree, tree0>>
          ELSE /\ tree' = MacroExpand(impl, k, args)
               /\ tree0' = tree'
               /\ mode' \in RunModes(impl)
               /\ UNCHANGED <<result, done>>
    /\ lastop' = "macro"
    /\ UNCHANGED <<impl, ctx, ctx0, runctx, source, queue, last, calls, log, hist, twin>>

\* the tree is built with Sel::with_nodes or Seq::with_nodes (crate-private
\* in src/composite.rs, public in old_impl and events_impl)
BuildWithNodes ==
    /\ mode = "build"
    /\ impl \in {"old", "events"}
    /\ \E k \in {"Seq", "Sel"}, nodes \in Lists0(BuildLeaves(impl), MaxLen) :
          /\ tree' = with_nodes(impl, k, nodes)
          /\ tree0' = tree'
    /\ mode' \in RunModes(impl)
    /\ lastop' = "with_nodes"
    /\ UNCHANGED <<impl, ctx, ctx0, runctx, source, queue, last, calls, log, hist, done, result, twin>>

\* events_impl: List::should_react_to indexes nodes[0], which panics on an
\* empty Vec when execute asks the root about the first event
ExecutePanic ==
    /\ mode = "react" /\ ~done
    /\ queue # <<>>
    /\ tree.nodes = <<>>
    /\ queue' = Tail(queue)
    /\ done' = TRUE
    /\ result' = "panic"
    /\ lastop' = "panic"
    /\ UNCHANGED <<impl, mode, tree, tree0, ctx, ctx0, runctx, source, last, calls, log, hist, twin>>

\* BhvExt::execute on a root whose should_react_to returns
ExecuteBuilt ==
    /\ mode = "react"
    /\ tree.nodes # <<>>
    /\ ReactExecute

NextBuild ==
    \/ BuildMacro
    \/ BuildWithNodes
    \/ Execute
    \/ CallUpdate
    \/ CallReset
    \/ ExecutePanic
    \/ ExecuteBuilt

SpecBuild == InitBuild /\ [][NextBuild]_vars

----------------------------------------------------------------------------
(* Reading the log *)

RECURSIVE NodeAt(_, _)
\* the node of tree n under path p
NodeAt(n, p) ==
    IF p = <<>> THEN n
    ELSE NodeAt(IF n.kind \in {"Seq", "Sel", "WhenAll", "WhenAny"}
                THEN n.nodes[p[1] + 1] ELSE n.bhv, Tail(p))

Parent(p) == SubSeq(p, 1, Len(p) - 1)

IsUpdate(ev) == ev.op = "update"

\* the update calls a root composite made on its children, in call order
ChildCalls(lg) == SelectSeq(lg, LAMBDA ev : ev.op = "update" /\ Len(ev.p) = 1)

\* the update calls made on the node under path p
CallsOn(lg, p) == SelectSeq(lg, LAMBDA ev : ev.op = "update" /\ ev.p = p)

\* the paths under which lg has a call
Touched(lg) == { lg[i].p : i \in 1..Len(lg) }

RECURSIVE ApplyEffects(_, _)
\* the effects of a list of Action nodes, applied in list order
ApplyEffects(nodes, v) ==
    IF nodes = <<>> THEN v ELSE ApplyEffects(Tail(nodes), Effect(Head(nodes), v))

AllActions(nodes) == \A i \in 1..Len(nodes) : nodes[i].kind = "Action"

Poll == mode \in {"execute", "manual"}

\* the root has been updated once since it was built
FirstCall == Poll /\ calls = 1 /\ lastop = "update"

----------------------------------------------------------------------------
(* C1 *)

AllChildCallsSucceed == \A i \in 1..Len(ChildCalls(log)) : ChildCalls(log)[i].s = "Success"

\* C1: when every child a fresh Sequence activates returns Success on its
\* first activation, the first update call returns Success (execute returns
\* true) after activating every child exactly once, in list order, and the
\* context carries the effects of the children in list order.
C1_SeqAllSucceed ==
    (FirstCall /\ tree0.kind = "Seq" /\ AllChildCallsSucceed) =>
        /\ last = "Success"
        /\ [i \in 1..Len(ChildCalls(log)) |-> ChildCalls(log)[i].p]
             = [i \in 1..Len(tree0.nodes) |-> <<i - 1>>]
        /\ (mode = "execute" => done /\ result = "true")
        /\ (AllActions(tree0.nodes) => ctx = ApplyEffects(tree0.nodes, ctx0))

\* a Sequence of three effects that do not commute has run
C1_Witness ==
    /\ FirstCall
    /\ tree0 = seq(<<action("set", 5), action("add", -1), action("add", -1)>>)
    /\ last = "Success"
    /\ ctx = 3

----------------------------------------------------------------------------
(* C2, C3 *)

\* in lg, every update call under a composite of kind k that returned the
\* status st is followed, with no further update call in between, by the
\* return of that composite with the status st
ShortCircuits(lg, k, st) ==
    \A j \in 1..Len(lg) :
        (/\ lg[j].op = "update" /\ lg[j].s = st /\ lg[j].p # <<>>
         /\ NodeAt(tree0, Parent(lg[j].p)).kind = k) =>
            \E m \in (j + 1)..Len(lg) :
                /\ lg[m].op = "update" /\ lg[m].p = Parent(lg[j].p) /\ lg[m].s = st
                /\ \A x \in (j + 1)..(m - 1) : lg[x].op = "reset"

\* C2: when a child of a Sequence returns Failure, the Sequence returns
\* Failure in that same update call without activating any other child; a
\* fresh Sequence of leaves leaves in the context the effects of the
\* children up to the failing one only.
C2_SeqFailureAborts ==
    /\ (Poll /\ lastop = "update") => ShortCircuits(log, "Seq", "Failure")
    /\ (FirstCall /\ tree0.kind = "Seq" /\ last = "Failure"
          /\ \A i \in 1..Len(tree0.nodes) : tree0.nodes[i].kind \in {"Action", "Cond"}) =>
            ctx = ApplyEffects(SelectSeq(SubSeq(tree0.nodes, 1, Len(ChildCalls(log))),
                                         LAMBDA n : n.kind = "Action"), ctx0)

\* the first child of a Sequence changed the context, the second failed, a third exists
C2_Witness ==
    /\ FirstCall
    /\ tree0.kind = "Seq" /\ Len(tree0.nodes) >= 2
    /\ last = "Failure"
    /\ Len(ChildCalls(log)) = 2
    /\ ctx # ctx0

\* the last update call on each child of the root since the last reset returned Failure
EveryChildFailed ==
    \A i \in 1..Len(tree0.nodes) :
        /\ CallsOn(hist, <<i - 1>>) # <<>>
        /\ CallsOn(hist, <<i - 1>>)[Len(CallsOn(hist, <<i - 1>>))].s = "Failure"

\* C3: when a child of a Selector returns Success, the Selector returns
\* Success in that same update call without activating any other child;
\* a Selector returns Failure only when every child has returned Failure;
\* the tree of composites_test run with v = 25 activates its third branch
\* only and succeeds.
C3_Selector ==
    /\ (Poll /\ lastop = "update") => ShortCircuits(log, "Sel", "Success")
    /\ (Poll /\ lastop = "update" /\ tree0.kind = "Sel" /\ last = "Failure") => EveryChildFailed
    /\ (Poll /\ tree0 = composites_test /\ ctx0 = 25 /\ calls = 1 /\ lastop = "update") =>
            /\ last = "Success"
            /\ <<2>> \in Touched(log)
            /\ <<0, 1>> \notin Touched(log) /\ <<1, 1>> \notin Touched(log)
            /\ (mode = "execute" => done /\ result = "true")

\* composites_test has run with v = 25
C3_Witness ==
    /\ mode = "execute" /\ tree0 = composites_test /\ ctx0 = 25
    /\ done /\ result = "true"

\* a Selector of two children has failed
C3_WitnessFailure ==
    /\ Poll /\ tree0.kind = "Sel" /\ Len(tree0.nodes) = 2
    /\ lastop = "update" /\ last = "Failure"

----------------------------------------------------------------------------
(* C4 *)

RECURSIVE Counters(_)
\* the cursors and repeat counters of a tree, in tree order
Counters(n) ==
    CASE n.kind \in {"Action", "Cond", "AsyncAction", "AsyncFn"} -> <<>>
      [] n.kind \in {"Seq", "Sel"} ->
            <<n.current, [i \in 1..Len(n.nodes) |-> Counters(n.nodes[i])]>>
      [] n.kind = "Repeat" -> <<n.current, Counters(n.bhv)>>
      [] OTHER -> <<Counters(n.bhv)>>

\* C4: a reset of the root, after a terminal status or on an abandoned run,
\* leaves every cursor and every repeat counter of the tree at the value it
\* was built with.
C4_ResetRestores == (Poll /\ lastop = "reset") => Counters(tree) = Counters(tree0)

----------------------------------------------------------------------------
(* C5 *)

\* the calls of lg that returned Success or Failure
Completed(lg) == SelectSeq(lg, LAMBDA ev : ev.s \in Terminal)

\* the reset calls made on the node under path p
ResetsOn(lg, p) == SelectSeq(lg, LAMBDA ev : ev.op = "reset" /\ ev.p = p)

\* C5: Repeat(N), N >= 1, driven by execute returns Running while its
\* child has completed fewer than N runs and resets the child after each of
\* these; when execute returns the child has completed exactly N runs, has
\* been reset N-1 times, and the status of its N-th run is the result;
\* Repeat(1) returns the status of its child on every call;
\* action(v -= 1).repeat(3) from 10 ends after three calls with 7 and true.
C5_Repeat ==
    /\ (mode = "execute" /\ tree0.kind = "Repeat" /\ calls >= 1) =>
          LET runs == Completed(CallsOn(hist, <<0>>))
          IN  /\ Len(runs) <= tree0.count
              /\ done <=> Len(runs) = tree0.count
              /\ ~done => last = "Running" /\ Len(ResetsOn(hist, <<0>>)) = Len(runs)
              /\ done => /\ Len(ResetsOn(hist, <<0>>)) = tree0.count - 1
                         /\ last = runs[Len(runs)].s
                         /\ result = IF last = "Success" THEN "true" ELSE "false"
    /\ (Poll /\ tree0.kind = "Repeat" /\ tree0.count = 1 /\ lastop = "update") =>
          last = CallsOn(log, <<0>>)[Len(CallsOn(log, <<0>>))].s
    /\ (mode = "execute" /\ tree0 = repeat(action("add", -1), 3) /\ ctx0 = 10 /\ done) =>
          ctx = 7 /\ result = "true" /\ calls = 3

\* action(v -= 1).repeat(3) has been executed from 10
C5_Witness ==
    /\ mode = "execute" /\ tree0 = repeat(action("add", -1), 3) /\ ctx0 = 10
    /\ done /\ ctx = 7

----------------------------------------------------------------------------
(* C6 *)

\* the tree is a RepeatUntil, or a Selector whose first child is one
RUPath == IF tree0.kind = "RepeatUntil" THEN <<>> ELSE <<0>>

RUTree ==
    \/ tree0.kind = "RepeatUntil"
    \/ tree0.kind = "Sel" /\ tree0.nodes # <<>> /\ tree0.nodes[1].kind = "RepeatUntil"

\* the predicate of the RepeatUntil is counter == RUTarget
RUTarget == NodeAt(tree0, RUPath).cond.lo

RUDist(v) == IF v >= RUTarget THEN v - RUTarget ELSE RUTarget - v

RUChildCalls == CallsOn(hist, Append(RUPath, 0))

\* every completed run of the child has moved the counter one step toward
\* the target, and nothing else has moved it
OneStepPerRun ==
    \A k \in 1..Len(RUChildCalls) :
        RUDist(RUChildCalls[k].c) = RUDist(ctx0) - Len(Completed(SubSeq(RUChildCalls, 1, k)))

\* C6: RepeatUntil(counter == target) over a child that moves the counter
\* one step toward the target per completed run, executed n >= 1 steps away,
\* returns Running while the child has completed fewer than n runs and
\* Success on the call in which the n-th run completes, with counter ==
\* target; a Selector around it then succeeds without activating its later
\* children; the tree of main.rs ends after five calls with 5.
C6_RepeatUntil ==
    /\ (/\ mode = "execute" /\ RUTree /\ calls >= 1
        /\ NodeAt(tree0, RUPath).cond.hi = RUTarget + 1
        /\ RUDist(ctx0) >= 1
        /\ OneStepPerRun) =>
          LET m == Len(Completed(RUChildCalls))
          IN  /\ last = IF m = RUDist(ctx0) THEN "Success" ELSE "Running"
              /\ m = RUDist(ctx0) =>
                    /\ ctx = RUTarget
                    /\ done /\ result = "true"
                    /\ CallsOn(log, RUPath)[1].s = "Success"
                    /\ \A p \in Touched(hist) : p = <<>> \/ p[1] = 0
    /\ (mode = "execute" /\ tree0 = main_tree /\ ctx0 = 0 /\ calls >= 1) =>
          /\ OneStepPerRun
          /\ done <=> calls = 5
          /\ done => ctx = 5 /\ result = "true"

\* the tree of main.rs has been executed: five runs of the child, the
\* second child of the Selector untouched
C6_Witness ==
    /\ mode = "execute" /\ tree0 = main_tree /\ ctx0 = 0
    /\ done /\ ctx = 5
    /\ Len(Completed(RUChildCalls)) = 5
    /\ <<1>> \notin Touched(hist)

----------------------------------------------------------------------------
(* C7, C8 *)

\* the react calls execute made on the root, in call order
RootReacts == SelectSeq(hist, LAMBDA ev : ev.op = "react" /\ ev.p = <<>>)

\* C7: Sequence([i += 1, i += 1, EventGate(Exit, _)]) driven from i = 0 by
\* five Tick events and one Exit event ends with i = 2 and Success, and
\* Success is produced on the Exit event and on no earlier event.
C7_GatedSequence ==
    (mode = "react" /\ tree0 = gated_seq /\ ctx0 = 0 /\ source = main_events) =>
        /\ last = "Success" => RootReacts[Len(RootReacts)].e.type = "Exit"
        /\ done => ctx = 2 /\ last = "Success"

\* C8: under execute, react is never called on a WaitFor node, nor on the
\* child of one, with an event whose kind differs from the kind of the gate.
C8_GateNeverReacts ==
    mode = "react" =>
        \A i \in 1..Len(hist) :
            hist[i].op = "react" =>
                /\ NodeAt(tree0, hist[i].p).kind = "WaitFor" =>
                        event_type(hist[i].e) = NodeAt(tree0, hist[i].p).ekind
                /\ (hist[i].p # <<>> /\ NodeAt(tree0, Parent(hist[i].p)).kind = "WaitFor") =>
                        event_type(hist[i].e) = NodeAt(tree0, Parent(hist[i].p)).ekind

----------------------------------------------------------------------------
(* C9, C10 *)

\* the root is not interested in the kind of the next event of the source
Refused == queue # <<>> /\ ~ShouldReactTo(tree, event_type(Head(queue)))

\* C9: when the root is not interested in the kind of the next event,
\* execute consumes it and stops: no react call is made, tree and context
\* are left as they are, and no step follows once execute has stopped, so no
\* later event is delivered.
C9_RefusalStops ==
    [][ /\ ~done
        /\ Refused => /\ done'
                      /\ queue' = Tail(queue)
                      /\ tree' = tree /\ ctx' = ctx /\ calls' = calls
                      /\ log' = <<>> /\ RootReacts' = RootReacts ]_vars

\* execute has stopped on an event the root refused, and the next event of
\* the source is one the root is interested in
C9_Witness ==
    /\ mode = "react" /\ done /\ lastop = "skip"
    /\ queue # <<>> /\ ShouldReactTo(tree, event_type(Head(queue)))

Skipped == \E i \in 1..Len(hist) : hist[i].op = "skip"

\* C10: the react calls on the root are made on the events of the source in
\* source order, one per event consumed (the refused event excepted); every
\* one but the last returned Running, and a react call that returns Success
\* or Failure ends the run; when the run ends because the source is
\* exhausted, every react call returned Running.
C10_Delivery ==
    mode = "react" =>
        /\ Len(RootReacts) = calls
        /\ Len(RootReacts) = Len(source) - Len(queue) - (IF Skipped THEN 1 ELSE 0)
        /\ \A i \in 1..Len(RootReacts) : RootReacts[i].e = source[i]
        /\ \A i \in 1..(Len(RootReacts) - 1) : RootReacts[i].s = "Running"
        /\ (RootReacts # <<>> /\ RootReacts[Len(RootReacts)].s \in Terminal) => done
        /\ (done /\ lastop = "end") =>
              /\ queue = <<>>
              /\ \A i \in 1..Len(RootReacts) : RootReacts[i].s = "Running"
              /\ last \in {"None", "Running"}

\* the second react call returned a terminal status and ended the run with
\* an event left in the source
C10_Witness ==
    /\ mode = "react" /\ done /\ lastop = "react"
    /\ calls = 2 /\ last \in Terminal /\ queue # <<>>

\* the source was exhausted after three react calls that returned Running
C10_WitnessExhausted ==
    /\ mode = "react" /\ done /\ lastop = "end"
    /\ calls = 3 /\ last = "Running"

----------------------------------------------------------------------------
(* C11 *)

\* the update calls execute made on the root, in call order
RootUpdates == CallsOn(hist, <<>>)

\* the number of Running results a scripted closure gives before its first other one
LeadingRunning(script) ==
    Cardinality({ i \in 1..Len(script) : \A j \in 1..i : script[j] = "Running" })

\* C11: execute calls update on the root once per iteration, each call on
\* the context the one before left; every call but the last returned
\* Running; execute returns exactly when a call returns Success or Failure,
\* true for Success and false for Failure; a closure that returns Running k
\* times and then a terminal status is called k + 1 times; the Fibonacci
\* example of async_action ends after 10 Running steps with Success and b = 89.
C11_Execute ==
    mode = "execute" =>
        /\ Len(RootUpdates) = calls
        /\ \A i \in 1..(calls - 1) : RootUpdates[i].s = "Running"
        /\ calls >= 1 => RootUpdates[calls].s = last /\ RootUpdates[calls].c = ctx
        /\ done <=> last \in Terminal
        /\ result = "true" <=> last = "Success"
        /\ result = "false" <=> last = "Failure"
        /\ (tree0.kind = "AsyncAction" /\ done) => calls = LeadingRunning(tree0.script) + 1
        /\ tree0 = fib =>
              /\ done <=> calls = ctx0.n + 1
              /\ ~done => ctx.n = ctx0.n - calls
              /\ done => result = "true"
              /\ (ctx0 = State(FibSteps) /\ done) => ctx.b = 89

\* the Fibonacci example has been executed: ten Running steps, then Success
C11_Witness ==
    /\ mode = "execute" /\ tree0 = fib /\ ctx0 = State(FibSteps)
    /\ done /\ calls = 11 /\ result = "true" /\ ctx.b = 89

----------------------------------------------------------------------------
(* C12 *)

\* the two trees are a Selector of two children and its De Morgan dual
IsDeMorgan ==
    /\ mode = "pair" /\ tree0.kind = "Sel" /\ Len(tree0.nodes) = 2
    /\ twin.tree0 = DeMorgan(tree0.nodes[1], tree0.nodes[2])[2]

\* a reset call without the status it was given
Masked(ev) == IF ev.op = "reset" THEN [op |-> "reset", p |-> ev.p] ELSE ev

\* the calls of lg made on the children of the Selector and below them
SelActivity(lg) ==
    LET l == SelectSeq(lg, LAMBDA ev : Len(ev.p) >= 1)
    IN  [i \in 1..Len(l) |-> Masked(l[i])]

\* the calls of lg made on a and b and below them, inside
\* Invert(Sequence([Invert(a), Invert(b)])), under the paths they have in
\* the Selector
DualActivity(lg) ==
    LET l == SelectSeq(lg, LAMBDA ev : Len(ev.p) >= 3)
    IN  [i \in 1..Len(l) |->
            Masked([l[i] EXCEPT !.p = <<l[i].p[2]>> \o SubSeq(l[i].p, 4, Len(l[i].p))])]

\* C12: Selector([a, b]) and Invert(Sequence([Invert(a), Invert(b)])),
\* given the same update and reset calls from the same context, return the
\* same status on every update call, make the same calls on a and b and
\* below them in the same order with the same results, and leave a, b and
\* the context in the same state.
C12_DeMorgan ==
    IsDeMorgan =>
        /\ last = twin.last
        /\ ctx = twin.ctx
        /\ SelActivity(log) = DualActivity(twin.log)
        /\ tree.current = twin.tree.bhv.current
        /\ \A i \in 1..2 : tree.nodes[i] = twin.tree.bhv.nodes[i].bhv

\* the Selector has returned Running on a child that is not its first and
\* Success on the call after
C12_Witness ==
    /\ IsDeMorgan /\ lastop = "update" /\ calls >= 2
    /\ last = "Success" /\ twin.last = "Success"
    /\ \E i \in 1..Len(hist) : hist[i].op = "update" /\ hist[i].p = <<1>> /\ hist[i].s = "Running"
    /\ \E i \in 1..Len(hist) : hist[i].op = "update" /\ hist[i].p = <<0>> /\ hist[i].s = "Failure"

----------------------------------------------------------------------------
(* C13 *)

\* the two trees are a node n and Invert(Invert(n))
IsInvInv == mode = "pair" /\ twin.tree0 = inv(inv(tree0))

\* the calls of lg made on n and below it, inside Invert(Invert(n)), under
\* the paths they have in n
InnerActivity(lg) ==
    LET l == SelectSeq(lg, LAMBDA ev : Len(ev.p) >= 2)
    IN  [i \in 1..Len(l) |-> [l[i] EXCEPT !.p = SubSeq(l[i].p, 3, Len(l[i].p))]]

\* the calls made on the reactive tree so far are calls of the trait
\* (should_react_to, react), which Invert(Invert(n)) has as n does: the
\* Repeat::reset of events_impl has not been called on n
TraitCalls == impl = "events" => \A i \in 1..Len(hist) : hist[i].op # "reset"

\* C13: Invert(Invert(n)) and n, given the same calls from the same context,
\* return the same status on every update (poll) and every react (reactive)
\* call and leave n and the context in the same state; n receives inside
\* Invert(Invert(n)) the calls it receives alone, every reset with the
\* status the root was given; in the reactive model, whose trait has no
\* reset, the two are interested in the same kinds of events.
C13_InvInv ==
    (IsInvInv /\ TraitCalls) =>
        /\ last = twin.last
        /\ ctx = twin.ctx
        /\ twin.tree.bhv.bhv = tree
        /\ InnerActivity(twin.log) = log
        /\ impl = "events" =>
              \A E \in EventTypes :
                  ShouldReactTo(twin.tree, static_event_type(E))
                      = ShouldReactTo(tree, static_event_type(E))

\* a node that returned Running and then a terminal status has been reset,
\* alone and inside Invert(Invert(n))
C13_Witness ==
    /\ IsInvInv /\ impl \in {"cur", "old"} /\ lastop = "reset" /\ calls = 3
    /\ tree0.kind \in {"Seq", "Sel", "Repeat"}
    /\ Len(log) >= 2
    /\ Len(twin.log) = Len(log) + 2

\* a reactive node has returned Running and then a terminal status, alone
\* and inside Invert(Invert(n))
C13_WitnessReact ==
    /\ IsInvInv /\ impl = "events" /\ calls = 2
    /\ last \in Terminal /\ twin.last = last
    /\ hist[1].s = "Running"

----------------------------------------------------------------------------
(* C14 *)

\* the table of the status-transforming decorators
Transformed(kind, s) ==
    CASE s = "Running" -> "Running"
      [] kind = "Inv"  -> (IF s = "Success" THEN "Failure" ELSE "Success")
      [] kind = "Pass" -> "Success"
      [] kind = "Fail" -> "Failure"

Instantaneous(n) == n.kind \in {"Action", "Cond"}

\* C14: in every update call, each Inv, Pass or Fail node that is updated
\* updates its child exactly once, as the last thing before it returns,
\* leaves the context as the child left it, and returns the status of the
\* child mapped as Invert Running->Running, Success->Failure,
\* Failure->Success; Pass Running->Running, else Success; Fail
\* Running->Running, else Failure; Pass(x).inv() returns Failure and
\* Fail(x).inv() returns Success for an instantaneous x, and execute returns
\* false and true on them.
C14_Decorators ==
    /\ (Poll /\ lastop = "update") =>
          \A j \in 1..Len(log) :
              (log[j].op = "update" /\ NodeAt(tree0, log[j].p).kind \in {"Inv", "Pass", "Fail"}) =>
                  /\ Len(CallsOn(log, log[j].p)) = 1
                  /\ Len(CallsOn(log, Append(log[j].p, 0))) = 1
                  /\ j > 1
                  /\ log[j - 1].op = "update" /\ log[j - 1].p = Append(log[j].p, 0)
                  /\ log[j].s = Transformed(NodeAt(tree0, log[j].p).kind, log[j - 1].s)
                  /\ log[j].c = log[j - 1].c
    /\ (/\ Poll /\ lastop = "update" /\ tree0.kind = "Inv"
        /\ tree0.bhv.kind \in {"Pass", "Fail"} /\ Instantaneous(tree0.bhv.bhv)) =>
          /\ last = IF tree0.bhv.kind = "Pass" THEN "Failure" ELSE "Success"
          /\ mode = "execute" =>
                done /\ result = (IF tree0.bhv.kind = "Pass" THEN "false" ELSE "true")
    /\ (/\ Poll /\ lastop = "update" /\ tree0.kind \in {"Pass", "Fail"}
        /\ Instantaneous(tree0.bhv)) =>
          last = IF tree0.kind = "Pass" THEN "Success" ELSE "Failure"

\* decorators_test: ok.inv() has been executed and execute returned false
C14_Witness ==
    /\ mode = "execute" /\ tree0 = inv(pass(print)) /\ ctx0 = 0
    /\ done /\ result = "false"

\* a Pass below another node has turned a Failure into Success
C14_WitnessNested ==
    /\ Poll /\ lastop = "update"
    /\ \E j \in 2..Len(log) :
          /\ log[j].op = "update" /\ Len(log[j].p) >= 1
          /\ NodeAt(tree0, log[j].p).kind = "Pass"
          /\ log[j - 1].s = "Failure" /\ log[j].s = "Success"

----------------------------------------------------------------------------
(* C15 *)

\* the two trees are a node c and a Sequence or Selector of c alone
IsSingle == mode = "pair" /\ twin.tree0 \in { seq(<<tree0>>), sel(<<tree0>>) }

\* the caller has reset the root after every Success or Failure before
\* updating it again: every update call on the root since the last reset
\* but the last one returned Running
Disciplined(h) ==
    \A i \in 1..(Len(CallsOn(h, <<>>)) - 1) : CallsOn(h, <<>>)[i].s = "Running"

\* the composite has returned what c alone returned, c has been updated
\* once inside the composite and has returned that status
PassThrough ==
    (IsSingle /\ lastop = "update" /\ Disciplined(hist) /\ Disciplined(twin.hist)) =>
        /\ twin.last = last
        /\ twin.ctx = ctx
        /\ Len(CallsOn(twin.log, <<0>>)) = 1
        /\ CallsOn(twin.log, <<0>>)[1].s = twin.last

\* C15: for a caller that resets the root after every terminal status, a
\* Sequence or Selector of the single child c returns on every update the
\* status c returned, which is the status c alone returns under the same
\* calls; and when that status is Success or Failure, c is reset, in that
\* update call or in the reset call that follows, before it is updated again.
C15_SingleChild ==
    [][ /\ PassThrough'
        /\ (IsSingle /\ lastop = "update" /\ twin.last \in Terminal /\ lastop' = "reset") =>
              \/ ResetsOn(twin.log, <<0>>) # <<>>
              \/ ResetsOn(twin.log', <<0>>) # <<>> ]_vars

----------------------------------------------------------------------------
(* C16 *)

\* C16: no Sequence or Selector that has been built has an empty child
\* list, whichever way it was built, and no update or execute runs on an
\* empty list.
C16_NoEmptyComposite ==
    /\ (tree # NotBuilt /\ tree.kind \in {"Seq", "Sel"}) => Len(tree.nodes) >= 1
    /\ result # "panic"

----------------------------------------------------------------------------
(* C17 *)

\* C17: when a RepeatUntil returns Success or Failure, its child has
\* completed a run and the status returned is the status of the last run
\* the child completed.
C17_RepeatUntilStatus ==
    (Poll /\ tree0.kind = "RepeatUntil" /\ lastop = "update" /\ last \in Terminal) =>
        LET runs == Completed(CallsOn(hist, <<0>>))
        IN  /\ runs # <<>>
            /\ last = runs[Len(runs)].s

----------------------------------------------------------------------------
(* C18 *)

\* the status a RepeatUntilPass or RepeatUntilFail waits for, and the other one
Awaited(kind) == IF kind = "RepeatUntilPass" THEN "Success" ELSE "Failure"

Swallowed(kind) == IF kind = "RepeatUntilPass" THEN "Failure" ELSE "Success"

\* the positions in lg of the calls of kind op made on the node under path p
Positions(lg, op, p) == { i \in 1..Len(lg) : lg[i].op = op /\ lg[i].p = p }

\* lg[j] is the return of a RepeatUntilPass or RepeatUntilFail: its child
\* was called once, before; the node returns the awaited status exactly
\* when the child returned it and Running otherwise; in the poll model the
\* child is reset, with the status it returned, between its return and the
\* return of the node exactly when it returned the other terminal status
UntilStep(lg, j) ==
    LET kind  == NodeAt(tree0, lg[j].p).kind
        child == Append(lg[j].p, 0)
        cs    == Positions(lg, lg[j].op, child)
    IN  /\ Cardinality(cs) = 1
        /\ \A i \in cs :
              /\ i < j
              /\ lg[j].s = (IF lg[i].s = Awaited(kind) THEN Awaited(kind) ELSE "Running")
              /\ lg[j].s # Swallowed(kind)
              /\ lg[j].c = lg[i].c
              /\ lg[j].op = "update" =>
                    LET rs == { r \in Positions(lg, "reset", child) : i < r /\ r < j }
                    IN  IF lg[i].s = Swallowed(kind)
                        THEN Cardinality(rs) = 1 /\ \A r \in rs : lg[r].s = Swallowed(kind)
                        ELSE rs = {}

\* C18: at any depth and on every call, a RepeatUntilPass returns Success
\* exactly when its child returns Success on that call, and Running, never
\* Failure, when the child returns Running or Failure; in the poll model
\* it resets the child after a Failure (and only then) before it returns;
\* RepeatUntilFail is the same with Success and Failure exchanged.
\* seq!{print, inc, cond(v == 5)}.repeat_until_pass() and seq!{print, inc,
\* cond(v < 5)}.repeat_until_fail() executed from 0 end on the fifth call
\* with 5, under the poll driver and under the reactive driver.
C18_RepeatUntilPassFail ==
    /\ \A j \in 1..Len(log) :
          (/\ log[j].op \in {"update", "react"}
           /\ NodeAt(tree0, log[j].p).kind \in {"RepeatUntilPass", "RepeatUntilFail"}) =>
              UntilStep(log, j)
    /\ (/\ mode \in {"execute", "pump"}
        /\ tree0 \in {until_pass_tree, until_fail_tree, ev_until_pass_tree, ev_until_fail_tree}
        /\ ctx0 = 0) =>
          /\ done <=> calls = 5
          /\ ctx = calls
          /\ done => /\ ctx = 5
                     /\ last = Awaited(tree0.kind)
                     /\ mode = "execute" =>
                            result = (IF tree0.kind = "RepeatUntilPass" THEN "true" ELSE "false")

\* lg[j] is the return of an update of a RepeatUntilPass or RepeatUntilFail
\* whose child returned the other terminal status: the child is left with
\* every cursor and every repeat counter at the value it was built with
FreshAfter(lg, j) ==
    LET kind  == NodeAt(tree0, lg[j].p).kind
        child == Append(lg[j].p, 0)
    IN  \A i \in Positions(lg, "update", child) :
            (i < j /\ lg[i].s = Swallowed(kind)) =>
                Counters(NodeAt(tree, child)) = Counters(NodeAt(tree0, child))

\* C18, with its conclusion: the statuses and the reset call as above, and
\* in the poll model the reset after the other terminal status leaves
\* the child ready for a fresh run, so that the next call starts one.
C18_FreshRun ==
    /\ C18_RepeatUntilPassFail
    /\ (mode \in {"execute", "manual"} /\ impl = "old" /\ lastop = "update") =>
          \A j \in 1..Len(log) :
              (/\ log[j].op = "update"
               /\ NodeAt(tree0, log[j].p).kind \in {"RepeatUntilPass", "RepeatUntilFail"}) =>
                  FreshAfter(log, j)

\* the poll doc example of repeat_until_pass has been executed
C18_Witness ==
    /\ mode = "execute" /\ impl = "old" /\ tree0 = until_pass_tree
    /\ ctx0 = 0 /\ done /\ ctx = 5 /\ result = "true"
    /\ Len(ResetsOn(hist, <<0>>)) = 4

\* the reactive doc example of repeat_until_fail has been executed
C18_WitnessReact ==
    /\ mode = "pump" /\ tree0 = ev_until_fail_tree /\ ctx0 = 0
    /\ done /\ ctx = 5 /\ last = "Failure"

\* a RepeatUntilFail below another node has answered a Success with a reset and Running
C18_WitnessNested ==
    /\ Poll /\ lastop = "update"
    /\ \E j \in 1..Len(log) :
          /\ log[j].op = "update" /\ Len(log[j].p) >= 1
          /\ NodeAt(tree0, log[j].p).kind = "RepeatUntilFail"
          /\ log[j].s = "Running"
          /\ \E r \in Positions(log, "reset", Append(log[j].p, 0)) : r < j

----------------------------------------------------------------------------
(* C19, C20 *)

\* the react calls of the run made on the node under path p
ReactsOn(lg, p) == SelectSeq(lg, LAMBDA ev : ev.op = "react" /\ ev.p = p)

\* C19: seq!{ action(print), action(i += 1), action(_).wait_for::<Exit>() }
\* executed from 0 over [Tick, Tick, Tick, Tick, Tick, Exit] ends with 6:
\* the root reacts to each of the six events, Running until the last one,
\* and the increment is activated once per event.
C19_MainDemo ==
    (mode = "react" /\ tree0 = main_ev_tree /\ ctx0 = 0 /\ source = main_events) =>
        /\ ctx = Len(ReactsOn(hist, <<1>>))
        /\ Len(ReactsOn(hist, <<1>>)) = Len(RootReacts)
        /\ done => /\ ctx = 6
                   /\ Len(RootReacts) = 6
                   /\ queue = <<>>

\* the leaves that complete on every call
SyncLeaf(n) == n.kind \in {"Action", "Cond"}

Leaf(n) == n.kind \in {"Action", "Cond", "AsyncAction"}

\* C20 (amended): a leaf wrapped in repeat(N), executed as the root over the endless
\* source of unit events: the leaf completes at most N runs; as long as
\* fewer than N are completed the run goes on and the root takes the next
\* event; once N are completed the root refuses every event, so the run
\* ends on the next event, which reaches no node; the run ends in no other
\* way. A leaf that completes on every call is called exactly N times.
\* action(v -= 1).repeat(3) from 10 ends with 7.
C20_ReactiveRepeat ==
    (mode = "pump" /\ tree0.kind = "Repeat" /\ Leaf(tree0.bhv)) =>
        LET calls0 == ReactsOn(hist, <<0>>)
            runs   == Completed(calls0)
        IN  /\ Len(runs) <= tree0.count
            /\ Len(runs) < tree0.count =>
                  ~done /\ ShouldReactTo(tree, event_type(UnitEventPump))
            /\ Len(runs) = tree0.count =>
                  \A E \in EventTypes : ~ShouldReactTo(tree, static_event_type(E))
            /\ done => /\ Len(runs) = tree0.count
                       /\ lastop = "skip" /\ log = <<>>
                       /\ hist[Len(hist)].op = "skip"
                       /\ Len(RootReacts) = Len(calls0)
            /\ SyncLeaf(tree0.bhv) => Len(calls0) = Len(runs)
            /\ (tree0 = ev_repeat_tree /\ ctx0 = 10) =>
                  /\ ctx = 10 - Len(runs)
                  /\ done => ctx = 7

\* the doc example of repeat has ended: three activations, 10 became 7
C20_Witness ==
    /\ mode = "pump" /\ tree0 = ev_repeat_tree /\ ctx0 = 10
    /\ done /\ ctx = 7
    /\ Len(ReactsOn(hist, <<0>>)) = 3

\* C20 as it is written: whatever the leaf, when the run has ended the
\* leaf has been activated exactly N times.
C20_ExactlyN ==
    (mode = "pump" /\ tree0.kind = "Repeat" /\ Leaf(tree0.bhv) /\ done) =>
        Len(ReactsOn(hist, <<0>>)) = tree0.count

\* a leaf that needs two calls per run has been repeated twice
C20_WitnessAsync ==
    /\ mode = "pump" /\ tree0.kind = "Repeat" /\ tree0.bhv.kind = "AsyncAction"
    /\ tree0.count = 2 /\ done
    /\ Len(ReactsOn(hist, <<0>>)) > 2

----------------------------------------------------------------------------
(* C21 *)

\* C21: on the react call in which the child of a reactive Repeat completes
\* its last repetition (the counter reaches the count), the Repeat returns
\* the status the child returned in that call, Success or Failure.
C21_ReactiveRepeatStatus ==
    (mode \in {"react", "pump"} /\ lastop = "react") =>
        \A j \in 1..Len(log) :
            (/\ log[j].op = "react"
             /\ NodeAt(tree0, log[j].p).kind = "Repeat"
             /\ NodeAt(tree, log[j].p).current >= NodeAt(tree0, log[j].p).count) =>
                \A i \in Positions(log, "react", Append(log[j].p, 0)) :
                    log[i].s \in Terminal => log[j].s = log[i].s

----------------------------------------------------------------------------
(* C22, C23 *)

\* the position in lg of the one update call made on the node under path p
UpdateAt(lg, p) == CHOOSE i \in Positions(lg, "update", p) : TRUE

\* lg[j] is the return of an update of a WhenAll (stop = Failure, full =
\* Success) or of a WhenAny (stop = Success, full = Failure): the children
\* updated in the call are the first k of the list, each once and in list
\* order; a child that returned stop is the last one updated and the node
\* returns stop; without such a child all children were updated and the
\* node returns Running if one of them did and full otherwise
WhenStep(lg, j, stop, full) ==
    LET p      == lg[j].p
        n      == Len(NodeAt(tree0, p).nodes)
        called == { i \in 0..(n - 1) : Positions(lg, "update", Append(p, i)) # {} }
        k      == Cardinality(called)
        at(i)  == UpdateAt(lg, Append(p, i))
        st(i)  == lg[at(i)].s
    IN  /\ called = 0..(k - 1) /\ k >= 1
        /\ \A i \in called :
              /\ Cardinality(Positions(lg, "update", Append(p, i))) = 1
              /\ at(i) < j
              /\ i + 1 \in called => at(i) < at(i + 1)
              /\ st(i) = stop => i = k - 1
        /\ lg[j].c = lg[at(k - 1)].c
        /\ IF st(k - 1) = stop
           THEN lg[j].s = stop
           ELSE /\ k = n
                /\ lg[j].s = (IF \E i \in called : st(i) = "Running" THEN "Running" ELSE full)

WhenUpdates(kind) ==
    { j \in 1..Len(log) : log[j].op = "update" /\ NodeAt(tree0, log[j].p).kind = kind }

\* C22: every update of a WhenAll, at any depth and on every call, updates
\* its children in list order from the first one; it returns Failure at
\* the first child that returns Failure, the later children not being
\* updated in that call; otherwise it updates all of them and returns
\* Running if one returned Running and Success if all returned Success.
\* when_all!{Running, v = 20, cond false, v = 40} executed from 10 returns
\* false on the first call with 20.
C22_WhenAll ==
    /\ Poll => \A j \in WhenUpdates("WhenAll") : WhenStep(log, j, "Failure", "Success")
    /\ (mode = "execute" /\ tree0 = when_all_tree /\ ctx0 = 10 /\ calls > 0) =>
            done /\ calls = 1 /\ ctx = 20 /\ result = "false"

\* the doc example of when_all! has been executed
C22_Witness ==
    /\ mode = "execute" /\ tree0 = when_all_tree /\ ctx0 = 10
    /\ done /\ ctx = 20
    /\ Positions(log, "update", <<2>>) # {} /\ Positions(log, "update", <<3>>) = {}

\* a WhenAll has gone on past a Running child and returned Running after the last child
C22_WitnessRunning ==
    /\ Poll /\ tree0.kind = "WhenAll" /\ Len(tree0.nodes) = 3 /\ last = "Running"
    /\ log[UpdateAt(log, <<0>>)].s = "Running"
    /\ log[UpdateAt(log, <<2>>)].s = "Success"
    /\ calls = 1

\* C23: every update of a WhenAny, at any depth and on every call, updates
\* its children in list order from the first one and goes on past the
\* children that return Running or Failure; it returns Success at the
\* first child that returns Success, the later children not being updated
\* in that call; otherwise it returns Running if one child returned
\* Running and Failure if all returned Failure.
\* when_any!{Running, v = 20, cond false} executed from 10 returns true on
\* the first call with 20.
C23_WhenAny ==
    /\ Poll => \A j \in WhenUpdates("WhenAny") : WhenStep(log, j, "Success", "Failure")
    /\ (mode = "execute" /\ tree0 = when_any_tree /\ ctx0 = 10 /\ calls > 0) =>
            done /\ calls = 1 /\ ctx = 20 /\ result = "true"

\* the doc example of when_any! has been executed
C23_Witness ==
    /\ mode = "execute" /\ tree0 = when_any_tree /\ ctx0 = 10
    /\ done /\ ctx = 20 /\ result = "true"
    /\ Positions(log, "update", <<1>>) # {} /\ Positions(log, "update", <<2>>) = {}

\* a WhenAny has gone on past a Running child and a failed one and returned Running
C23_WitnessRunning ==
    /\ Poll /\ tree0.kind = "WhenAny" /\ Len(tree0.nodes) = 3 /\ last = "Running"
    /\ log[UpdateAt(log, <<0>>)].s = "Running"
    /\ log[UpdateAt(log, <<1>>)].s = "Failure"
    /\ Positions(log, "update", <<2>>) # {}

----------------------------------------------------------------------------
(* C24 *)

IsList(n) == n.kind \in {"Seq", "Sel"}

\* the positions before j in lg of the update calls made on the children of the node under path p
KidCalls(lg, j, p) ==
    { i \in 1..(j - 1) : /\ lg[i].op = "update"
                         /\ Len(lg[i].p) = Len(p) + 1
                         /\ SubSeq(lg[i].p, 1, Len(p)) = p }

\* the index of the child called at position i of lg
KidIndex(lg, i) == lg[i].p[Len(lg[i].p)]

\* lg[j] is the return of an update of a Sequence or Selector whose cursor
\* was cur when it was called: the children called are cur, cur + 1, ...
\* in this order, each once; all but the last returned the continue
\* status; a Running answer is the answer of the last child called
Resumes(lg, j, cur) ==
    LET p    == lg[j].p
        kids == KidCalls(lg, j, p)
        k    == Cardinality(kids)
    IN  /\ { KidIndex(lg, i) : i \in kids } = cur..(cur + k - 1)
        /\ \A i1, i2 \in kids :
              /\ i1 < i2 => KidIndex(lg, i1) < KidIndex(lg, i2)
              /\ i1 < i2 => lg[i1].s = PolicyStatus(NodeAt(tree0, p))
        /\ lg[j].s = "Running" =>
              \E i \in kids : KidIndex(lg, i) = cur + k - 1 /\ lg[i].s = "Running"

\* a Sequence or Selector that answered Running in the last call, and was
\* not reset since, has its cursor on the child that answered Running
CursorOnRunning ==
    \A j \in 1..Len(log) :
        (/\ log[j].op = "update" /\ IsList(NodeAt(tree0, log[j].p))
         /\ log[j].s = "Running"
         /\ \A r \in Positions(log, "reset", log[j].p) : r < j) =>
            \E i \in KidCalls(log, j, log[j].p) :
                /\ log[i].s = "Running"
                /\ NodeAt(tree, log[j].p).current = KidIndex(log, i)

\* n is Sequence([a, r, b]) with an action a, a leaf b that completes on
\* every call, and r answering Running m times and then Success
ExampleOf(n, m) ==
    /\ n.kind = "Seq" /\ Len(n.nodes) = 3
    /\ n.nodes[1].kind = "Action"
    /\ n.nodes[2] = RunningThen(m, "Success")
    /\ n.nodes[3].kind \in {"Action", "Cond"}

\* C24: at any depth and in both poll variants, an update of a Sequence or
\* Selector calls its children from the one under the cursor on, in list
\* order; when a child answers Running the composite answers Running and
\* its cursor stays on that child, so that the next update calls that child
\* first and calls no child before it. Sequence([a, r, b]), r answering
\* Running m times and then Success, executed: a is called once, r m + 1
\* times, b once.
C24_Resumption ==
    [][ /\ Poll' => CursorOnRunning'
        /\ Poll' =>
              \A j \in 1..Len(log') :
                  (log'[j].op = "update" /\ IsList(NodeAt(tree0, log'[j].p))) =>
                      Resumes(log', j, NodeAt(tree, log'[j].p).current)
        /\ \A m \in 0..MaxRunning :
              (mode' = "execute" /\ ExampleOf(tree0', m) /\ done') =>
                  /\ Len(CallsOn(hist', <<0>>)) = 1
                  /\ Len(CallsOn(hist', <<1>>)) = m + 1
                  /\ Len(CallsOn(hist', <<2>>)) = 1
                  /\ calls' = m + 1 ]_vars

\* Sequence([a, r, b]) with r Running twice has been executed
C24_Witness ==
    /\ mode = "execute" /\ ExampleOf(tree0, 2) /\ done
    /\ Len(CallsOn(hist, <<0>>)) = 1 /\ Len(CallsOn(hist, <<1>>)) = 3
    /\ Len(CallsOn(hist, <<2>>)) = 1

\* a Sequence below the root has been resumed at its second child
C24_WitnessNested ==
    /\ Poll /\ calls >= 2
    /\ \E j \in 1..Len(log) :
          /\ log[j].op = "update" /\ Len(log[j].p) >= 1
          /\ IsList(NodeAt(tree0, log[j].p))
          /\ \A i \in KidCalls(log, j, log[j].p) : KidIndex(log, i) >= 1
          /\ KidCalls(log, j, log[j].p) # {}

----------------------------------------------------------------------------
(* C25 *)

\* C25: in old_impl, when an update of a Sequence or Selector returns
\* Success or Failure, the composite has, before it returns, called reset
\* on every child it updated in that call, the child that produced the
\* short-circuit status included, and a root composite is left with its
\* cursor at 0.
C25_OldListResets ==
    (Poll /\ impl = "old" /\ lastop = "update") =>
        /\ (IsList(tree0) /\ last \in Terminal) => tree.current = 0
        /\ \A j \in 1..Len(log) :
              (/\ log[j].op = "update" /\ IsList(NodeAt(tree0, log[j].p))
               /\ log[j].s \in Terminal) =>
                  \A i \in KidCalls(log, j, log[j].p) :
                      \E r \in Positions(log, "reset", log[i].p) : i < r /\ r < j

----------------------------------------------------------------------------
(* C26 *)

\* the evaluations in lg of the predicate of the RepeatUntil under path p
CondsOn(lg, p) == Positions(lg, "cond", p)

\* the child of the RepeatUntil under path p has completed a run between positions i1 and i2 of lg
CompletedBetween(lg, p, i1, i2) ==
    \E k \in Positions(lg, "update", Append(p, 0)) : i1 < k /\ k < i2 /\ lg[k].s \in Terminal

\* between two evaluations of the predicate of a RepeatUntil its child has completed a run
OncePerCompletion(lg) ==
    \A i1, i2 \in 1..Len(lg) :
        (/\ i1 < i2 /\ lg[i1].op = "cond" /\ lg[i2].op = "cond" /\ lg[i1].p = lg[i2].p) =>
            CompletedBetween(lg, lg[i1].p, i1, i2)

\* after an evaluation that did not hold, the predicate is not evaluated
\* again before the child has completed a run
NoRecheck(lg) ==
    \A i1, i2 \in 1..Len(lg) :
        (/\ i1 < i2 /\ lg[i1].op = "cond" /\ lg[i2].op = "cond" /\ lg[i1].p = lg[i2].p
         /\ lg[i1].s = "false") =>
            CompletedBetween(lg, lg[i1].p, i1, i2)

\* lg[j] is the return of an update of a RepeatUntil whose flag was ck0
\* when it was called and is ck1 now
UntilCheck(lg, j, ck0, ck1) ==
    LET p     == lg[j].p
        child == UpdateAt(lg, Append(p, 0))
        conds == { i \in CondsOn(lg, p) : child < i /\ i < j }
    IN  /\ CondsOn(lg, p) = conds
        /\ Cardinality(conds) = (IF ck0 /\ lg[child].s = "Running" THEN 0 ELSE 1)
        /\ (ck0 /\ lg[child].s = "Running") => (lg[j].s = "Running" /\ ck1)
        /\ (ck0 /\ ~ck1) => lg[child].s \in Terminal
        /\ \A i \in conds : /\ lg[j].s = (IF lg[i].s = "true" THEN "Success" ELSE "Running")
                             /\ ck1 = (lg[i].s = "false")

\* C26 (as stated): under execute, between two evaluations of the
\* predicate of a RepeatUntil its child has completed a run.
C26_OncePerCompletion == mode = "execute" => OncePerCompletion(hist)

\* C26 (amended): at any depth and in both poll variants, after an
\* evaluation of the predicate of a RepeatUntil that did not hold, the
\* predicate is not evaluated again before the child has completed a run;
\* an update called with the flag set whose child answers Running returns
\* Running without evaluating the predicate and leaves the flag set; the
\* flag goes from set to clear only in an update in which the child
\* answers Success or Failure; every other update evaluates the predicate
\* once, after the child, returns Success if it holds and sets the flag if
\* it does not. An evaluation that holds leaves the flag clear, so a
\* RepeatUntil that is updated again evaluates again at once.
C26_CheckedOnce ==
    [][ Poll' =>
          /\ NoRecheck(hist')
          /\ \A j \in 1..Len(log') :
                (log'[j].op = "update" /\ NodeAt(tree0, log'[j].p).kind = "RepeatUntil") =>
                    UntilCheck(log', j, NodeAt(tree, log'[j].p).checked_cond,
                                        NodeAt(tree', log'[j].p).checked_cond) ]_vars

\* a RepeatUntil has been updated with its flag set and a child that
\* answered Running, after an evaluation that did not hold
C26_Witness ==
    /\ Poll /\ tree0.kind = "RepeatUntil" /\ lastop = "update" /\ calls >= 2
    /\ tree.checked_cond /\ CondsOn(log, <<>>) = {}
    /\ CondsOn(hist, <<>>) # {}
    /\ last = "Running"

\* the predicate has been evaluated a second time, after a completion of the child
C26_WitnessAgain ==
    /\ Poll /\ tree0.kind = "RepeatUntil"
    /\ Cardinality(CondsOn(hist, <<>>)) >= 2
    /\ \E k \in Positions(hist, "update", <<0>>) : hist[k].s = "Running"

----------------------------------------------------------------------------
(* C27, C28 *)

\* the positions before j in lg of the react calls made on the children of the node under path p
KidReacts(lg, j, p) ==
    { i \in 1..(j - 1) : /\ lg[i].op = "react"
                         /\ Len(lg[i].p) = Len(p) + 1
                         /\ SubSeq(lg[i].p, 1, Len(p)) = p }

\* lg[j] is the return of a react of the Sequence or Selector n (as it was
\* when react was called): the children offered the event are the first k
\* of the list, in list order, and every child up to an offered one is
\* interested in the kind of the event
PrefixScan(lg, j, n) ==
    LET kids    == KidReacts(lg, j, lg[j].p)
        offered == { KidIndex(lg, i) : i \in kids }
        kind    == event_type(lg[j].e)
    IN  /\ offered = 0..(Cardinality(kids) - 1)
        /\ \A i1, i2 \in kids : i1 < i2 => KidIndex(lg, i1) < KidIndex(lg, i2)
        /\ \A i \in kids : lg[i].e = lg[j].e
        /\ \A k \in offered : \A k2 \in 0..k : ShouldReactTo(n.nodes[k2 + 1], kind)

ListReacts(lg) == { j \in 1..Len(lg) : lg[j].op = "react" /\ IsList(NodeAt(tree0, lg[j].p)) }

\* C27: in every react of a reactive Sequence or Selector, at any depth,
\* the children offered the event are a prefix of the list, in list order,
\* and a child is offered the event only if it and every child before it
\* are interested in the kind of the event: no child behind the first
\* child that is not interested is offered the event, interested or not.
C27_PrefixScan ==
    [][ mode' = "react" =>
          \A j \in ListReacts(log') : PrefixScan(log', j, NodeAt(tree, log'[j].p)) ]_vars

\* a Sequence has reacted to a Tick: its first child was offered the
\* event, its second is gated on Exit, and its third, which takes every
\* event, was not offered the Tick
C27_Witness ==
    /\ mode = "react" /\ lastop = "react" /\ tree0.kind = "Seq" /\ Len(tree0.nodes) = 3
    /\ tree0.nodes[2].kind = "WaitFor" /\ tree0.nodes[3].kind = "Action"
    /\ log[Len(log)].e.type = "Tick"
    /\ Positions(log, "react", <<0>>) # {}
    /\ log[Len(log) - 1].s = "Success"
    /\ Positions(log, "react", <<1>>) = {} /\ Positions(log, "react", <<2>>) = {}

\* lg[j] is the return of a react of a Sequence or Selector: every child
\* offered the event but the last returned the continue status; the node
\* returns the status of the last child offered when that is not the
\* continue status, and the continue status otherwise
PolicyScan(lg, j) ==
    LET kids == KidReacts(lg, j, lg[j].p)
        cont == PolicyStatus(NodeAt(tree0, lg[j].p))
        stop == { i \in kids : lg[i].s # cont }
    IN  /\ \A i \in stop : \A i2 \in kids : i2 <= i
        /\ lg[j].s = (IF stop = {} THEN cont ELSE lg[CHOOSE i \in stop : TRUE].s)
        /\ stop # {} => lg[j].c = lg[CHOOSE i \in stop : TRUE].c

\* C28: every react of a reactive Sequence (continue status Success) or
\* Selector (continue status Failure), at any depth, returns the status of
\* the first child offered the event that returns Running or the
\* short-circuit status, and offers the event to no later child; it
\* returns the continue status when every child offered the event
\* returned it.
C28_ReactPolicy ==
    mode \in {"react", "pump"} => \A j \in ListReacts(log) : PolicyScan(log, j)

\* a Selector has gone past a failed child and returned the Running of its second child
C28_Witness ==
    /\ mode = "react" /\ lastop = "react" /\ tree0.kind = "Sel" /\ last = "Running"
    /\ Len(tree0.nodes) >= 2
    /\ \E i \in Positions(log, "react", <<0>>) : log[i].s = "Failure"
    /\ \E i \in Positions(log, "react", <<1>>) : log[i].s = "Running"

\* a Sequence has returned the Failure of its first child without offering the event to the second
C28_WitnessStop ==
    /\ mode = "react" /\ lastop = "react" /\ tree0.kind = "Seq" /\ last = "Failure"
    /\ Len(tree0.nodes) >= 2
    /\ ShouldReactTo(tree0.nodes[2], event_type(log[Len(log)].e))
    /\ \E i \in Positions(log, "react", <<0>>) : log[i].s = "Failure"
    /\ Positions(log, "react", <<1>>) = {}

----------------------------------------------------------------------------
(* C29 *)

RECURSIVE SubNodes(_)
\* the nodes of a reactive tree
SubNodes(n) ==
    {n} \cup (CASE n.kind \in {"Action", "Cond", "AsyncAction"} -> {}
                [] n.kind \in {"Seq", "Sel"} -> UNION { SubNodes(n.nodes[i]) : i \in 1..Len(n.nodes) }
                [] OTHER -> SubNodes(n.bhv))

Gates(n) == { g \in SubNodes(n) : g.kind = "WaitFor" }

Events == { source[i] : i \in 1..Len(source) }

\* C29: the kind computed from an event of marker type E is the kind
\* computed statically for E, so that every gate built by wait_for::<E>(),
\* at any depth, is interested in every event of type E, and a root gate
\* on E never makes execute break on an event of type E; two events with
\* the same name have the same kind.
C29_EventKinds ==
    mode = "react" =>
        /\ \A e \in Events : event_type(e) = static_event_type(e.type)
        /\ \A e1, e2 \in Events : event_name(e1) = event_name(e2) => event_type(e1) = event_type(e2)
        /\ \A g \in Gates(tree) : \A E \in EventTypes :
              g.ekind = static_event_type(E) =>
                  \A e \in Events : e.type = E => ShouldReactTo(g, event_type(e))
        /\ \A E \in EventTypes :
              (tree0.kind = "WaitFor" /\ tree0.ekind = static_event_type(E)) =>
                  \A i \in 1..Len(hist) : hist[i].op = "skip" => hist[i].e.type # E

\* a root gate on Exit has reacted to the second Exit of its source
C29_Witness ==
    /\ mode = "react" /\ tree0.kind = "WaitFor" /\ tree0.ekind = static_event_type("Exit")
    /\ lastop = "react" /\ calls = 2
    /\ log[Len(log)].e = Event("Exit", 1)

----------------------------------------------------------------------------
(* C30 *)

\* the tree is Repeat(M)(Repeat(N)(a)) with a leaf a that completes on every call
IsNestedRepeat ==
    /\ tree0.kind = "Repeat" /\ tree0.bhv.kind = "Repeat"
    /\ tree0.bhv.bhv.kind \in {"Action", "Cond"}

\* C30: Repeat(M)(Repeat(N)(a)), a completing on every call, executed in
\* either poll variant: every call of execute activates a once; the run
\* ends on call M * N and on no earlier call, with the status a returned
\* on that call; the outer Repeat has reset the inner one M - 1 times, and
\* after each of these resets the inner counter is back at 1.
C30_NestedRepeat ==
    (mode = "execute" /\ IsNestedRepeat) =>
        LET M == tree0.count
            N == tree0.bhv.count
            a == CallsOn(hist, <<0, 0>>)
        IN  /\ Len(a) = calls
            /\ calls <= M * N
            /\ done <=> calls = M * N
            /\ done => /\ last = a[Len(a)].s
                       /\ Len(ResetsOn(hist, <<0>>)) = M - 1
            /\ (calls > 0 /\ ResetsOn(log, <<0>>) # <<>>) => tree.bhv.current = 1

\* Repeat(2)(Repeat(3)(a)) has been executed: six activations of a
C30_Witness ==
    /\ mode = "execute" /\ IsNestedRepeat /\ tree0.count = 2 /\ tree0.bhv.count = 3
    /\ done /\ Len(CallsOn(hist, <<0, 0>>)) = 6

----------------------------------------------------------------------------
(* C31 *)

\* the two trees are Repeat(0)(n) and Repeat(1)(n)
IsZeroOne ==
    /\ mode = "pair" /\ tree0.kind = "Repeat"
    /\ tree0.count = 0 /\ twin.tree0 = [tree0 EXCEPT !.count = 1]

\* C31: Repeat(0)(n) and Repeat(1)(n), updated and reset call by call in
\* either poll variant, return the same statuses, make the same calls on n
\* and below, and leave n, the counter and the context equal; every
\* update, the first included, updates n once and returns what n returned.
C31_RepeatZero ==
    IsZeroOne =>
        /\ twin.last = last /\ twin.ctx = ctx
        /\ twin.log = log /\ twin.hist = hist
        /\ twin.tree = [tree EXCEPT !.count = 1]
        /\ lastop = "update" =>
              /\ Len(CallsOn(log, <<0>>)) = 1
              /\ last = CallsOn(log, <<0>>)[1].s
              /\ ResetsOn(log, <<0>>) = <<>>

\* Repeat(0)(a) has returned the Success of a on the first update, a having run once
C31_Witness ==
    /\ IsZeroOne /\ calls = 1 /\ lastop = "update"
    /\ tree0.bhv.kind = "Action" /\ last = "Success" /\ ctx = ctx0 - 1

----------------------------------------------------------------------------
(* C32 *)

\* every evaluation of a predicate in lg comes after the update of the
\* child in the same call, and is made on the context the child left
ChildBeforeCond(lg) ==
    \A j \in 1..Len(lg) :
        lg[j].op = "cond" =>
            /\ Cardinality(Positions(lg, "update", Append(lg[j].p, 0))) = 1
            /\ \A k \in Positions(lg, "update", Append(lg[j].p, 0)) :
                  /\ k < j
                  /\ lg[j].c = lg[k].c
                  /\ lg[j].s = (IF Holds(NodeAt(tree0, lg[j].p).cond, lg[k].c) THEN "true" ELSE "false")

\* a predicate has been found to hold in the run
SomeTrue(lg) == \E j \in 1..Len(lg) : lg[j].op = "cond" /\ lg[j].s = "true"

\* the tree is a RepeatUntil over an action, under execute
IsDoWhile == mode = "execute" /\ tree0.kind = "RepeatUntil" /\ tree0.bhv.kind = "Action"

\* C32: in every update of a RepeatUntil, at any depth and in both poll
\* variants, the child is updated before the predicate is evaluated, and
\* the predicate is evaluated on the context the child left. For a
\* RepeatUntil over an action under execute: the first call applies the
\* effect of the action whatever the predicate says on entry; if the
\* predicate holds on entry and after the effect, the first call returns
\* Success with the effect applied once; the run ends only in a call in
\* which the predicate is found to hold; if the predicate holds on entry
\* and v -= 1 takes the counter below its range, no call returns a
\* terminal status.
C32_DoWhile ==
    /\ Poll => ChildBeforeCond(log)
    /\ (IsDoWhile /\ calls >= 1) =>
          LET v1 == Effect(tree0.bhv, ctx0)
          IN  /\ CallsOn(hist, <<0>>)[1].c = v1
              /\ (Holds(tree0.cond, ctx0) /\ Holds(tree0.cond, v1)) =>
                    /\ done /\ calls = 1 /\ last = "Success" /\ ctx = v1
              /\ done <=> SomeTrue(hist)
              /\ ~SomeTrue(hist) => last = "Running"
              /\ (/\ tree0.bhv = action("add", -1)
                  /\ Holds(tree0.cond, ctx0) /\ v1 < tree0.cond.lo) =>
                    /\ ~done /\ last = "Running" /\ ctx = ctx0 - calls

\* the predicate held on entry, the action has made it false, and execute
\* is still running after all the calls that are followed
C32_Witness ==
    /\ IsDoWhile /\ tree0.bhv = action("add", -1)
    /\ Holds(tree0.cond, ctx0) /\ ~Holds(tree0.cond, ctx0 - 1)
    /\ calls = MaxTicks /\ ~done /\ last = "Running"

\* the predicate held on entry and after the action: Success, the effect applied once
C32_WitnessOnce ==
    /\ IsDoWhile /\ tree0.bhv = action("add", -1)
    /\ Holds(tree0.cond, ctx0) /\ ctx = ctx0 - 1
    /\ done /\ calls = 1 /\ last = "Success"

----------------------------------------------------------------------------
(* C33 *)

\* the update of a RepeatUntil logged at j: its child answered Running at
\* k, the predicate was evaluated and held, and between the child's answer
\* and the RepeatUntil's the child was not reset
EarlySuccess(lg, j) ==
    LET p == lg[j].p
    IN  \A k \in Positions(lg, "update", Append(p, 0)) :
            (/\ k < j /\ lg[k].s = "Running"
             /\ \E i \in k..j : lg[i] = CondEv(p, lg[k].c, TRUE)) =>
                /\ lg[j].s = "Success"
                /\ \A i \in k..j : ~(lg[i].op = "reset" /\ lg[i].p = Append(p, 0))

\* a RepeatUntil at the root, whose checked flag is clear
ClearUntil == Poll /\ tree.kind = "RepeatUntil" /\ ~tree.checked_cond

\* C33: at any depth and in both poll variants, an update of a RepeatUntil
\* in which the child answers Running and the predicate is evaluated and
\* holds answers Success without resetting the child. For a RepeatUntil at
\* the root whose checked flag is clear: when the child's update answers
\* Running and the predicate holds on the context it leaves, the call
\* returns Success, logs no reset, and leaves the child in the state its own
\* update produced (cursor, counters).
C33_MidRun ==
    [][ /\ Poll' =>
              \A j \in 1..Len(log') :
                  (log'[j].op = "update" /\ NodeAt(tree0, log'[j].p).kind = "RepeatUntil") =>
                      EarlySuccess(log', j)
        /\ (ClearUntil /\ lastop' = "update") =>
              LET r == Update(impl, tree.bhv, ctx, <<0>>, <<>>)
              IN  (r.s = "Running" /\ Holds(tree.cond, r.ctx)) =>
                      /\ last' = "Success"
                      /\ ctx' = r.ctx
                      /\ tree'.bhv = r.node
                      /\ ~tree'.checked_cond
                      /\ Positions(log', "reset", <<0>>) = {} ]_vars

\* RepeatUntil has returned Success in its first call, leaving a Sequence
\* child with its cursor on the second child
C33_Witness ==
    /\ Poll /\ tree0 \in MidRun /\ tree0.bhv.kind = "Seq"
    /\ calls = 1 /\ last = "Success"
    /\ Positions(log, "update", <<0>>) # {}
    /\ \A k \in Positions(log, "update", <<0>>) : log[k].s = "Running"
    /\ tree.bhv.current = 1 /\ tree0.bhv.current = 0

\* the same with a Repeat child, whose counter has moved
C33_WitnessCounter ==
    /\ Poll /\ tree0 \in MidRun /\ tree0.bhv.kind = "Repeat"
    /\ calls = 1 /\ last = "Success"
    /\ tree.bhv.current = 2 /\ tree0.bhv.current = 1

----------------------------------------------------------------------------
(* C34 *)

\* the root is a Sequence or Selector of composite.rs, updated and reset by the caller
RootList == Poll /\ impl = "cur" /\ mode = "manual" /\ IsList(tree0)

\* the last update of the root short-circuited: a child answered a
\* terminal status that is not the continue status
ShortCircuited ==
    /\ lastop = "update" /\ last \in Terminal /\ last # PolicyStatus(tree0)

\* the indices of the children of the root updated in the call logged in lg
RootKids(lg) == { KidIndex(lg, i) : i \in KidCalls(lg, Len(lg), <<>>) }

\* C34: for a Sequence or Selector of composite.rs at the root: an update
\* never lowers the cursor, and the cursor stays within 0..len; a step
\* that lowers it is a reset and leaves it at 0; an update made with the
\* cursor at len returns the continue status, updates no child and
\* changes neither the tree nor the context; an update made after a
\* short-circuit at child k, without a reset in between, updates child k
\* first and no child before it.
C34_Cursor ==
    [][ RootList =>
          /\ lastop' = "update" => tree'.current >= tree.current
          /\ tree'.current \in 0..Len(tree0.nodes)
          /\ tree'.current < tree.current => (lastop' = "reset" /\ tree'.current = 0)
          /\ lastop' = "reset" => tree'.current = 0
          /\ (tree.current = Len(tree.nodes) /\ lastop' = "update") =>
                /\ last' = PolicyStatus(tree0)
                /\ log' = <<UpdEv(<<>>, last', ctx)>>
                /\ tree' = tree /\ ctx' = ctx
          /\ (ShortCircuited /\ lastop' = "update") =>
                /\ tree.current < Len(tree.nodes)
                /\ tree.current \in RootKids(log')
                /\ \A i \in RootKids(log') : i >= tree.current ]_vars

\* a second update after a short-circuit at the second child has called that child again
C34_Witness ==
    /\ RootList /\ calls = 2 /\ ShortCircuited
    /\ Len(hist) >= 2 /\ tree.current = 1
    /\ RootKids(log) = {1}
    /\ Len(CallsOn(hist, <<1>>)) = 2 /\ Len(CallsOn(hist, <<0>>)) = 1

\* a second update with the cursor at len has returned the continue status with no child called
C34_WitnessDone ==
    /\ RootList /\ calls = 2 /\ lastop = "update"
    /\ tree.current = Len(tree.nodes) /\ Len(tree.nodes) = 2
    /\ log = <<UpdEv(<<>>, PolicyStatus(tree0), ctx)>>
    /\ Len(CallsOn(hist, <<0>>)) = 1 /\ Len(CallsOn(hist, <<1>>)) = 1

----------------------------------------------------------------------------
(* C35 *)

\* lg[j] is the return of a react of a Sequence or Selector that offered
\* the event to some child: the first child offered it is child 0
FromFirst(lg, j) ==
    LET kids == KidReacts(lg, j, lg[j].p)
    IN  kids # {} =>
            \E i \in kids : KidIndex(lg, i) = 0 /\ \A i2 \in kids : i <= i2

\* child k of the composite whose react returns at lg[j] was offered the
\* event in that call, after every child before it
AfterAllBefore(lg, j, k) ==
    \A i1 \in KidReacts(lg, j, lg[j].p) :
        KidIndex(lg, i1) = k =>
            \A m \in 0..(k - 1) :
                \E i0 \in KidReacts(lg, j, lg[j].p) : i0 < i1 /\ KidIndex(lg, i0) = m

\* C35: every react of a reactive Sequence or Selector, at any depth,
\* that offers the event to a child offers it to child 0 first; when child
\* k of a composite answered Running to one event, child k is offered the
\* next event only after every child before it has been offered that
\* event, in the same react call. Sequence([a, b, r]), a and b v += 1 and r
\* Running on its first event: after two events a, b and r have each
\* reacted twice and v has grown by 4.
C35_NoResumption ==
    [][ (mode' = "react" /\ lastop' = "react") =>
          /\ \A j \in ListReacts(log') : FromFirst(log', j)
          /\ lastop = "react" =>
                \A j0 \in ListReacts(log) : \A k0 \in KidReacts(log, j0, log[j0].p) :
                    log[k0].s = "Running" =>
                        \A j \in ListReacts(log') :
                            log'[j].p = log[j0].p => AfterAllBefore(log', j, KidIndex(log, k0))
          /\ (/\ tree0 \in EvMidRun /\ tree0.kind = "Seq" /\ tree0.nodes[1].kind = "Action"
              /\ calls' = 2) =>
                /\ Len(ReactsOn(hist', <<0>>)) = 2 /\ Len(ReactsOn(hist', <<1>>)) = 2
                /\ Len(ReactsOn(hist', <<2>>)) = 2
                /\ ctx' = ctx0 + 4 ]_vars

\* the third child answered Running to the first event, and the second
\* event went to the first two children again before it reached the third
C35_Witness ==
    /\ mode = "react" /\ lastop = "react" /\ calls = 2
    /\ tree0 \in EvMidRun /\ tree0.kind = "Seq" /\ tree0.nodes[1].kind = "Action"
    /\ ReactsOn(hist, <<2>>)[1].s = "Running"
    /\ Len(log) = 4 /\ log[1].p = <<0>> /\ log[2].p = <<1>> /\ log[3].p = <<2>>
    /\ ctx = ctx0 + 4

----------------------------------------------------------------------------
(* C36 *)

RECURSIVE Repeats(_)
\* the number of Repeat nodes of an instantaneous tree
Repeats(n) ==
    CASE n.kind \in {"Action", "Cond"}      -> 0
      [] n.kind \in {"Seq", "Sel"}          ->
            Cardinality({ i \in 1..Len(n.nodes) : Repeats(n.nodes[i]) > 0 })
      [] n.kind \in {"Inv", "Pass", "Fail"} -> Repeats(n.bhv)
      [] n.kind = "Repeat"                  -> 1 + Repeats(n.bhv)

\* the root is the only Repeat of the tree, with a count of at least 1
SingleRepeat == tree0.kind = "Repeat" /\ Repeats(tree0) = 1 /\ tree0.count >= 1

\* C36: execute on a tree built from cond and action leaves with
\* Sequence, Selector, Inv, Pass, Fail and Repeat, in both poll variants:
\* the loop eventually ends, and it ends within CallBound(tree) update
\* calls on the root; when the root is the only Repeat of the tree, with
\* count N >= 1, the loop ends after exactly N update calls on the root.
C36_Terminates ==
    <>( /\ done /\ last \in Terminal /\ result = ExecuteResult(last)
        /\ calls <= CallBound(tree0)
        /\ SingleRepeat => calls = tree0.count )

\* Repeat(4) over a Sequence has returned after four update calls
C36_Witness ==
    /\ mode = "execute" /\ done /\ SingleRepeat
    /\ tree0.count = MaxCount + 2 /\ tree0.bhv.kind = "Seq"
    /\ calls = MaxCount + 2 /\ last \in Terminal

\* a tree with a Repeat in a Repeat has returned
C36_WitnessNested ==
    /\ mode = "execute" /\ done /\ tree0.kind = "Repeat" /\ Repeats(tree0) = 2
    /\ calls = tree0.count * tree0.bhv.count /\ calls >= 4

----------------------------------------------------------------------------
(* C37 *)

RECURSIVE ListNodes(_)
\* the Sequences and Selectors of a poll tree, at any depth
ListNodes(n) ==
    CASE n.kind \in {"Action", "Cond", "AsyncAction", "AsyncFn"} -> {}
      [] n.kind \in {"Seq", "Sel"} ->
            {n} \cup UNION { ListNodes(n.nodes[i]) : i \in 1..Len(n.nodes) }
      [] n.kind \in {"WhenAll", "WhenAny"} ->
            UNION { ListNodes(n.nodes[i]) : i \in 1..Len(n.nodes) }
      [] OTHER -> ListNodes(n.bhv)

RECURSIVE ValidPath(_, _)
\* p leads to a node of the tree n: every index in it is within the child list it indexes
ValidPath(n, p) ==
    IF p = <<>> THEN TRUE
    ELSE CASE n.kind \in {"Action", "Cond", "AsyncAction", "AsyncFn"} -> FALSE
           [] n.kind \in {"Seq", "Sel", "WhenAll", "WhenAny"} ->
                 p[1] \in 0..(Len(n.nodes) - 1) /\ ValidPath(n.nodes[p[1] + 1], Tail(p))
           [] OTHER -> p[1] = 0 /\ ValidPath(n.bhv, Tail(p))

\* C37: in every state of the poll model, after any update and reset
\* calls on the root, every Sequence and Selector of the tree has
\* 0 <= cursor <= len; every update and every reset made during a call
\* is made on a node of the tree, so that no child list is indexed out of
\* range; in the old_impl variant every Sequence and Selector with at
\* least one child has cursor < len.
C37_CursorBounds ==
    Poll =>
        /\ \A n \in ListNodes(tree) :
              /\ n.current \in 0..Len(n.nodes)
              /\ (impl = "old" /\ n.nodes # <<>>) => n.current < Len(n.nodes)
        /\ \A j \in 1..Len(log) : ValidPath(tree0, log[j].p)

\* a Sequence of composite.rs has run to its end: cursor = len
C37_Witness ==
    /\ Poll /\ impl = "cur" /\ IsList(tree0) /\ Len(tree0.nodes) = MaxLen
    /\ lastop = "update" /\ last = PolicyStatus(tree0)
    /\ tree.current = Len(tree.nodes)
    /\ Positions(log, "update", <<MaxLen - 1>>) # {}

\* the same Sequence in old_impl: the cursor is back at 0
C37_WitnessOld ==
    /\ Poll /\ impl = "old" /\ IsList(tree0) /\ Len(tree0.nodes) = MaxLen
    /\ lastop = "update" /\ last = PolicyStatus(tree0)
    /\ tree.current = 0
    /\ Positions(log, "update", <<MaxLen - 1>>) # {}

\* an empty Sequence of old_impl has been updated: cursor = len = 0
C37_WitnessEmpty ==
    /\ Poll /\ impl = "old" /\ tree0 = seq(<<>>) /\ lastop = "update"
    /\ last = "Success" /\ tree.current = 0

----------------------------------------------------------------------------
(* events_impl/decor.rs: Repeat::reset *)

\* a reactive Repeat that had used up its count has been reset by its
\* caller and has reacted to a later event
RepeatRearmed ==
    /\ mode = "pair" /\ impl = "events" /\ tree0.kind = "Repeat" /\ tree0.bhv.kind = "Action"
    /\ lastop = "react" /\ calls = MaxPairCalls
    /\ \E i \in 1..Len(hist) : hist[i].op = "reset"
    /\ ctx = ctx0 + (calls - 1)

====
